---- MODULE Spec2Model ----
(***************************************************************************)
(* Model of the role synthesis of baton-opensearch (pkg/connector): the    *)
(* roleBuilder revisions kept in the repository, the helper functions      *)
(* createRoleEntitlements / createRoleGrants they call, and the source     *)
(* adapter (client.GetRole / client.GetRoleMapping) they read.             *)
(*                                                                         *)
(* A Go string is a sequence of tokens (<<"cluster", ":", "health">> is     *)
(* "cluster:health"), fmt.Sprintf is concatenation, so two identifiers are *)
(* equal exactly when their texts are.  Enumerations of the SDK (traits,   *)
(* purposes, annotation types) are TLA+ strings.  A protobuf message is a  *)
(* record whose unset fields hold Go's zero values.                        *)
(***************************************************************************)
EXTENDS Naturals, Sequences, FiniteSets, TLC

\* ------------------------------------------------------------------ bounds
\* A role holds at most MaxPerms permission strings (cluster permissions plus
\* allowed actions) in at most MaxBlocks index-permission blocks; a mapping
\* holds at most MaxBackendRoles backend roles and MaxUsers users.
MaxPerms == 2
MaxBlocks == 2
MaxBackendRoles == 1
MaxUsers == 1

\* The source data changes at most MaxChanges times in a run of the pass model,
\* whose roles hold at most MaxPassPerms permission strings.
MaxChanges == 1
MaxPassPerms == 1

VARIABLES
    roleSrc,              \* role name -> what GetRole yields for it
    mappingSrc,           \* role name -> what GetRoleMapping yields for it
    userMatchKey,         \* Client.userMatchKey
    bidUnrepresentable,   \* the slugs bid.MakeBid fails on
    entitlementBidCache,  \* roleBuilder.entitlementBidCache (part_002:17)
    produced,             \* role name -> the bids createRoleEntitlements returned for it since the last List
    entSeen,              \* role name -> what Entitlements last returned for it on the present source data
    changes,              \* how often the source data changed
    pc,                   \* role name -> where the goroutine running the role's pipeline stands
    runtime,              \* "running", or "fatal" once the Go runtime has thrown
    client,               \* the *client.Client that NewClient built, or nil
    last                  \* what the last operation returned

vars == <<roleSrc, mappingSrc, userMatchKey, bidUnrepresentable,
          entitlementBidCache, produced, entSeen, changes, pc, runtime, client, last>>

source == <<roleSrc, mappingSrc, userMatchKey, bidUnrepresentable, changes>>
env == <<source, pc, runtime, client>>
builderState == <<entitlementBidCache, produced, entSeen>>

\* ----------------------------------------------------------- input pools
ClusterPermPool == {<<"cluster", ":", "monitor", "/", "health">>, <<"cluster", ":", "get">>}
ActionPool == {<<"read">>, <<"write">>}
BackendRolePool == {<<"okta-analysts">>}
UserPool == {<<"alice">>, <<"*">>}
MatchKeys == {<<"email">>, <<"username">>, <<"id">>}

BSeq(S, n) == UNION {[1..k -> S] : k \in 0..n}

\* The index patterns of the k-th block of a role: distinct blocks of one role
\* are scoped to different patterns.  No revision reads the patterns.
PatternsOf(k) == << <<"logs", "-", ToString(k), "-", "*">> >>

RECURSIVE SumLen(_)
SumLen(ss) == IF ss = <<>> THEN 0 ELSE Len(Head(ss)) + SumLen(Tail(ss))

\* client.indexPermission (models.go:26-31), FLS and masking left out: nothing reads them.
IndexBlocks(actionLists) ==
    [k \in 1..Len(actionLists) |->
        [IndexPatterns |-> PatternsOf(k), AllowedActions |-> actionLists[k]]]

\* The block lists of the roles: every block allows an action, but for the one
\* list of a single block that allows none.
IndexPermissionLists ==
    {IndexBlocks(al) : al \in {x \in BSeq(BSeq(ActionPool, MaxPerms) \ {<<>>}, MaxBlocks) : SumLen(x) <= MaxPerms}}
    \cup {IndexBlocks(<< <<>> >>)}

\* What client.GetRole yields for a name: the decoded client.Role, or an error.
RoleOk(cluster, index) ==
    [status |-> "ok", ClusterPermissions |-> cluster, IndexPermissions |-> index]
RoleFailed == [status |-> "error", ClusterPermissions |-> <<>>, IndexPermissions |-> <<>>]

RECURSIVE ActionCount(_)
ActionCount(blocks) ==
    IF blocks = <<>> THEN 0
    ELSE Len(Head(blocks).AllowedActions) + ActionCount(Tail(blocks))

RoleValues ==
    {RoleOk(c, ix) : c \in BSeq(ClusterPermPool, MaxPerms), ix \in IndexPermissionLists}

BoundedRoles == {r \in RoleValues : Len(r.ClusterPermissions) + ActionCount(r.IndexPermissions) <= MaxPerms}

\* What client.GetRoleMapping yields: the decoded client.RoleMapping, a 404
\* (gRPC NotFound) or any other transport / decoding error.
MappingOk(backend, users) == [status |-> "ok", BackendRoles |-> backend, Users |-> users]
MappingNotFound == [status |-> "notfound", BackendRoles |-> <<>>, Users |-> <<>>]
MappingFailed == [status |-> "error", BackendRoles |-> <<>>, Users |-> <<>>]

MappingValues ==
    {MappingOk(b, u) : b \in BSeq(BackendRolePool, MaxBackendRoles), u \in BSeq(UserPool, MaxUsers)}

\* The source data of the pass model: roles of cluster permissions, mappings of
\* at most one backend role and one user.
PassRoleValues ==
    {r \in BoundedRoles : r.IndexPermissions = <<>> /\ Len(r.ClusterPermissions) <= MaxPassPerms}
    \cup {RoleFailed}
PassMappingValues ==
    {MappingOk(b, u) : b \in {<<>>} \cup {<<x>> : x \in BackendRolePool},
                       u \in {<<>>} \cup {<<x>> : x \in UserPool}}
    \cup {MappingNotFound, MappingFailed}


\* ------------------------------------------------------------ baton-sdk
\* The calls into the SDK, modelled at their call sites.

\* resource.NewRoleResource(role.Name, o.resourceType, role.Name, ...): the
\* resource of a role, as List builds it and the SDK hands it back.
RoleResource(name) ==
    [ResourceType |-> <<"role">>, Resource |-> name, DisplayName |-> name]

NoResource == [ResourceType |-> <<>>, Resource |-> <<>>, DisplayName |-> <<>>]

\* entitlement.NewEntitlementID: "<resource type>:<resource id>:<name>".
NewEntitlementID(resource, name) ==
    resource.ResourceType \o <<":">> \o resource.Resource \o <<":">> \o name

\* entitlement.NewPermissionEntitlement(resource, name, WithGrantableTo(...)).
NewPermissionEntitlement(resource, name, grantableTo) ==
    [Id |-> NewEntitlementID(resource, name), DisplayName |-> name, Slug |-> name,
     Purpose |-> "PERMISSION", Resource |-> resource, GrantableTo |-> grantableTo]

\* entitlement.NewAssignmentEntitlement(resource, name, WithGrantableTo(...)).
NewAssignmentEntitlement(resource, name, grantableTo) ==
    [Id |-> NewEntitlementID(resource, name), DisplayName |-> name, Slug |-> name,
     Purpose |-> "ASSIGNMENT", Resource |-> resource, GrantableTo |-> grantableTo]

\* &v2.Entitlement{Id: id, Resource: resource, DisplayName: displayName}: the
\* literal the grant code builds by hand; every other field is zero.
EntitlementLiteral(id, resource, displayName) ==
    [Id |-> id, DisplayName |-> displayName, Slug |-> <<>>,
     Purpose |-> "UNSPECIFIED", Resource |-> resource, GrantableTo |-> <<>>]

\* bid.MakeBid(ent): "bid:e:<resource type>/<resource id>:<slug>", or an error
\* for an entitlement the SDK cannot serialize.  Which entitlements those are is
\* the SDK's matter: bidUnrepresentable holds their slugs, fixed for a run.
BidText(ent) ==
    <<"bid", ":", "e", ":">> \o ent.Resource.ResourceType \o <<"/">>
        \o ent.Resource.Resource \o <<":">> \o ent.Slug

MakeBid(ent) ==
    IF ent.Slug \in bidUnrepresentable
    THEN [err |-> TRUE, bid |-> <<>>]
    ELSE [err |-> FALSE, bid |-> BidText(ent)]

\* makeBidEntitlement (role_mappings.go:340-346) wraps the error and passes the id on.
makeBidEntitlement(ent) == MakeBid(ent)

userResourceType == <<"user">>
groupResourceType == <<"group">>

\* ---------------------------------------------------------------- labels
\* The fmt.Sprintf calls that build entitlement names.
ClusterLabel(perm) == <<"cluster_permission", ":">> \o perm
IndexLabel(action) == <<"index_permission", ":">> \o action
GroupAssignmentTitle(backendRole) == <<"Group Assignment", ":", " ">> \o backendRole
UserAssignmentTitle(user) == <<"User Assignment", ":", " ">> \o user
GroupAssignmentLabel(backendRole) == <<"group_assignment", ":">> \o backendRole
UserAssignmentLabel(user) == <<"user_assignment", ":">> \o user

\* The nested loops with the blocks visited last to first.
RECURSIVE AllowedActionsInOrder_lastBlockFirst(_)
AllowedActionsInOrder_lastBlockFirst(blocks) ==
    IF blocks = <<>> THEN <<>>
    ELSE AllowedActionsInOrder_lastBlockFirst(Tail(blocks)) \o Head(blocks).AllowedActions

\* for _, perm := range role.IndexPermissions { for _, action := range perm.AllowedActions {...} }
\* the actions in the order the nested loops visit them.
RECURSIVE AllowedActionsInOrder(_)
AllowedActionsInOrder(blocks) ==
    IF blocks = <<>> THEN <<>>
    ELSE Head(blocks).AllowedActions \o AllowedActionsInOrder(Tail(blocks))

MapSeq(Op(_), s) == [i \in 1..Len(s) |-> Op(s[i])]

\* The Go map left by a run of m[ent.Id] = bid over ents, in order: a later
\* assignment to a key replaces the earlier one.
RECURSIVE AssignAll(_, _, _)
AssignAll(m, ents, bids) ==
    IF ents = <<>> THEN m
    ELSE LET k == Head(ents).Id
             m1 == [x \in (DOMAIN m) \cup {k} |-> IF x = k THEN Head(bids) ELSE m[x]]
         IN  AssignAll(m1, Tail(ents), Tail(bids))

EmptyMap == [x \in {} |-> <<>>]

\* ------------------------------------------- role_mappings.go:349-437
\* createRoleEntitlements(ctx, roleResource, role, roleMapping) returning
\* (entitlements, entitlementBidMap, err).  The four loops append in order and
\* return (nil, nil, err) at the first entitlement whose bid cannot be made.
RoleEntitlementList(roleResource, role, roleMapping) ==
    MapSeq(LAMBDA perm : NewPermissionEntitlement(roleResource, ClusterLabel(perm), <<userResourceType>>),
           role.ClusterPermissions)
    \o MapSeq(LAMBDA action : NewPermissionEntitlement(roleResource, IndexLabel(action), <<userResourceType>>),
              AllowedActionsInOrder(role.IndexPermissions))
    \o MapSeq(LAMBDA b : NewAssignmentEntitlement(roleResource, GroupAssignmentTitle(b), <<userResourceType>>),
              roleMapping.BackendRoles)
    \o MapSeq(LAMBDA u : NewAssignmentEntitlement(roleResource, UserAssignmentTitle(u), <<userResourceType>>),
              roleMapping.Users)

\* The loops with "continue" where the error is returned: the entitlements whose
\* bid can be made, and the id map over them.
createRoleEntitlements_skipsFailed(roleResource, role, roleMapping) ==
    LET ents == SelectSeq(RoleEntitlementList(roleResource, role, roleMapping),
                          LAMBDA e : ~makeBidEntitlement(e).err)
        bids == MapSeq(makeBidEntitlement, ents)
    IN  [err |-> "nil", entitlements |-> ents,
         entitlementBidMap |-> AssignAll(EmptyMap, ents, MapSeq(LAMBDA x : x.bid, bids))]

createRoleEntitlements(roleResource, role, roleMapping) ==
    LET ents == RoleEntitlementList(roleResource, role, roleMapping)
        bids == MapSeq(makeBidEntitlement, ents)
    IN  IF \E i \in 1..Len(ents) : bids[i].err
        THEN [err |-> "bid", entitlements |-> <<>>, entitlementBidMap |-> EmptyMap]
        ELSE [err |-> "nil", entitlements |-> ents,
              entitlementBidMap |-> AssignAll(EmptyMap, ents, MapSeq(LAMBDA b : b.bid, bids))]

\* ------------------------------------------------- grants and annotations
\* The annotation messages of c1/connector/v2 that the grant code attaches.
NoAnnotation ==
    [type |-> "", ResourceType |-> "", Key |-> <<>>, Value |-> <<>>, Id |-> <<>>,
     EntitlementIds |-> <<>>, Shallow |-> FALSE, ResourceTypeIds |-> <<>>]

\* &v2.ExternalResourceMatch{ResourceType: trait, Key: key, Value: value}
ExternalResourceMatch(trait, key, value) ==
    [NoAnnotation EXCEPT !.type = "ExternalResourceMatch", !.ResourceType = trait,
                         !.Key = key, !.Value = value]

\* &v2.ExternalResourceMatchAll{ResourceType: trait}
ExternalResourceMatchAll(trait) ==
    [NoAnnotation EXCEPT !.type = "ExternalResourceMatchAll", !.ResourceType = trait]

\* &v2.ExternalResourceMatchID{Id: id}
ExternalResourceMatchID(id) ==
    [NoAnnotation EXCEPT !.type = "ExternalResourceMatchID", !.Id = id]

\* &v2.GrantExpandable{EntitlementIds: ids, Shallow: shallow, ResourceTypeIds: types}
GrantExpandable(ids, shallow, types) ==
    [NoAnnotation EXCEPT !.type = "GrantExpandable", !.EntitlementIds = ids,
                         !.Shallow = shallow, !.ResourceTypeIds = types]

\* &v2.ResourceId{ResourceType: t, Resource: id}, also what
\* resource.NewResourceID(resourceType, id) returns for a string id.
ResourceId(t, id) == [ResourceType |-> t, Resource |-> id]

\* grant.NewGrant(resource, entitlementName, principal, opts...): the grant's
\* entitlement is {Id: NewEntitlementID(resource, entitlementName), Resource},
\* its id "<entitlement id>:<principal type>:<principal id>", and each
\* grant.WithAnnotation option appends its message.
NewGrant(resource, entitlementName, principal, annos) ==
    LET ent == [EntitlementLiteral(NewEntitlementID(resource, entitlementName), resource, <<>>)
                    EXCEPT !.DisplayName = <<>>]
    IN  [Id |-> ent.Id \o <<":">> \o principal.ResourceType \o <<":">> \o principal.Resource,
         Entitlement |-> ent, Principal |-> principal, Annotations |-> annos]

\* grant.Entitlement = ent, after NewGrant.
WithEntitlement(g, ent) == [g EXCEPT !.Entitlement = ent]

\* if bidEnt, exists := entitlementBidMap[key]; exists { ids = append(ids, bidEnt) }
\* over the keys in order.
RECURSIVE LookupAll(_, _)
LookupAll(keys, m) ==
    IF keys = <<>> THEN <<>>
    ELSE (IF Head(keys) \in DOMAIN m THEN <<m[Head(keys)]>> ELSE <<>>)
         \o LookupAll(Tail(keys), m)

\* fmt.Sprintf("%s:cluster_permission:%s", roleResource.DisplayName, perm) and
\* fmt.Sprintf("%s:index_permission:%s", roleResource.DisplayName, action):
\* the keys the grant code looks up, cluster permissions first.
ExpandableKeys(roleResource, role) ==
    MapSeq(LAMBDA perm : roleResource.DisplayName \o <<":">> \o ClusterLabel(perm),
           role.ClusterPermissions)
    \o MapSeq(LAMBDA action : roleResource.DisplayName \o <<":">> \o IndexLabel(action),
              AllowedActionsInOrder(role.IndexPermissions))

HasPermissions(role) == Len(role.ClusterPermissions) > 0 \/ Len(role.IndexPermissions) > 0

\* The expansion annotation that lists the looked-up keys themselves.
ExpansionAnnotations_keysAsIds(roleResource, role, entitlementBidMap) ==
    IF HasPermissions(role)
    THEN <<GrantExpandable(ExpandableKeys(roleResource, role), TRUE, <<<<"user">>>>)>>
    ELSE <<>>

\* role_mappings.go:462-491 and 538-567: the expansion annotation of a grant,
\* attached only when the role has permissions.
ExpansionAnnotations(roleResource, role, entitlementBidMap) ==
    IF HasPermissions(role)
    THEN <<GrantExpandable(LookupAll(ExpandableKeys(roleResource, role), entitlementBidMap),
                           TRUE, <<<<"user">>>>)>>
    ELSE <<>>

\* role_mappings.go:445-518: one pass of the backend-role loop.
GroupAssignmentGrant(roleResource, role, backendRole, entitlementBidMap) ==
    LET userResourceId == ResourceId(<<"user">>, <<"group_member", ":">> \o backendRole)
        annos == <<ExternalResourceMatch("TRAIT_GROUP", <<"name">>, backendRole)>>
                 \o ExpansionAnnotations(roleResource, role, entitlementBidMap)
        groupAssignmentEntitlement ==
            EntitlementLiteral(roleResource.DisplayName \o <<":">> \o GroupAssignmentTitle(backendRole),
                               roleResource, GroupAssignmentTitle(backendRole))
        b == makeBidEntitlement(groupAssignmentEntitlement)
    IN  [err |-> b.err,
         grant |-> WithEntitlement(NewGrant(roleResource, b.bid, userResourceId, annos),
                                   groupAssignmentEntitlement)]

\* role_mappings.go:521-594: one pass of the user loop.
UserAssignmentGrant(roleResource, role, username, entitlementBidMap) ==
    LET userResourceId == ResourceId(<<"user">>, username)
        annos == <<ExternalResourceMatch("TRAIT_USER", <<"username">>, username)>>
                 \o ExpansionAnnotations(roleResource, role, entitlementBidMap)
        userAssignmentEntitlement ==
            EntitlementLiteral(roleResource.DisplayName \o <<":">> \o UserAssignmentTitle(username),
                               roleResource, UserAssignmentTitle(username))
        b == makeBidEntitlement(userAssignmentEntitlement)
    IN  [err |-> b.err,
         grant |-> WithEntitlement(NewGrant(roleResource, b.bid, userResourceId, annos),
                                   userAssignmentEntitlement)]

\* createRoleGrants with the user loop run only for a mapping without backend roles.
createRoleGrants_usersOnlyWithoutGroups(roleResource, role, roleMapping, entitlementBidMap) ==
    LET made == IF roleMapping.BackendRoles # <<>>
                THEN MapSeq(LAMBDA b : GroupAssignmentGrant(roleResource, role, b, entitlementBidMap),
                            roleMapping.BackendRoles)
                ELSE MapSeq(LAMBDA u : UserAssignmentGrant(roleResource, role, u, entitlementBidMap),
                            roleMapping.Users)
    IN  IF \E i \in 1..Len(made) : made[i].err
        THEN [err |-> "bid", grants |-> <<>>]
        ELSE [err |-> "nil", grants |-> MapSeq(LAMBDA x : x.grant, made)]

\* ------------------------------------------- role_mappings.go:440-597
\* createRoleGrants(ctx, roleResource, role, roleMapping, entitlementBidMap)
\* returning (grants, err): the backend-role grants, then the user grants, or
\* (nil, err) at the first grant whose bid cannot be made.
createRoleGrants(roleResource, role, roleMapping, entitlementBidMap) ==
    LET made == MapSeq(LAMBDA b : GroupAssignmentGrant(roleResource, role, b, entitlementBidMap),
                       roleMapping.BackendRoles)
                \o MapSeq(LAMBDA u : UserAssignmentGrant(roleResource, role, u, entitlementBidMap),
                          roleMapping.Users)
    IN  IF \E i \in 1..Len(made) : made[i].err
        THEN [err |-> "bid", grants |-> <<>>]
        ELSE [err |-> "nil", grants |-> MapSeq(LAMBDA x : x.grant, made)]

\* ------------------------------------------------------- source adapter
\* client.GetRole(ctx, name) and client.GetRoleMapping(ctx, name): one HTTP GET
\* each against the security API, (value, nil) or (nil, err).
GetRole(name) == roleSrc[name]
GetRoleMapping(name) == mappingSrc[name]

\* c.userMatchKey, set by NewClient.
GetUserMatchKey == userMatchKey

\* What an operation returned: (resources | entitlements | grants, err), with
\* the id map a helper returned beside them.  err is "nil" or names the failing step.
Returned(op, src, r, err, ents, grants, bidMap) ==
    [op |-> op, src |-> src, role |-> r, err |-> err, resources |-> <<>>,
     entitlements |-> ents, grants |-> grants, entitlementBidMap |-> bidMap,
     cacheWritten |-> FALSE]

NothingReturned == Returned("none", "", <<>>, "nil", <<>>, <<>>, EmptyMap)

\* return nil, "", nil, nil where the error belongs.
Failed_swallowed(op, src, r, err) == Returned(op, src, r, "nil", <<>>, <<>>, EmptyMap)

\* return nil, "", nil, fmt.Errorf("...: %w", err)
Failed(op, src, r, err) == Returned(op, src, r, err, <<>>, <<>>, EmptyMap)

\* -------------------------------------------------- roles.go:57-118
\* roleBuilder.Entitlements, first revision: any GetRoleMapping error is
\* returned; all four loops use NewPermissionEntitlement.
Ret_Entitlements_roles57(r) ==
    LET resource == RoleResource(r)
        roleMapping == GetRoleMapping(resource.DisplayName)
        role == GetRole(resource.DisplayName)
    IN  IF roleMapping.status # "ok" THEN Failed("Entitlements", "roles.go:57", r, "mapping")
        ELSE IF role.status # "ok" THEN Failed("Entitlements", "roles.go:57", r, "role")
        ELSE Returned("Entitlements", "roles.go:57", r, "nil",
                MapSeq(LAMBDA perm : NewPermissionEntitlement(resource, ClusterLabel(perm), <<userResourceType>>),
                       role.ClusterPermissions)
                \o MapSeq(LAMBDA action : NewPermissionEntitlement(resource, IndexLabel(action), <<userResourceType>>),
                          AllowedActionsInOrder(role.IndexPermissions))
                \o MapSeq(LAMBDA b : NewPermissionEntitlement(resource, GroupAssignmentTitle(b), <<userResourceType>>),
                          roleMapping.BackendRoles)
                \o MapSeq(LAMBDA u : NewPermissionEntitlement(resource, UserAssignmentTitle(u), <<userResourceType>>),
                          roleMapping.Users),
                <<>>, EmptyMap)

\* roles.go:159-185 and 224-250: the expansion annotation of the first
\* revision lists the looked-up keys themselves, no id map in between.
ExpansionAnnotations_roles121(resource, role) ==
    IF HasPermissions(role)
    THEN <<GrantExpandable(ExpandableKeys(resource, role), TRUE, <<<<"user">>>>)>>
    ELSE <<>>

\* -------------------------------------------------- roles.go:121-273
\* roleBuilder.Grants, first revision.
Ret_Grants_roles121(r) ==
    LET resource == RoleResource(r)
        roleMapping == GetRoleMapping(resource.DisplayName)
        role == GetRole(resource.DisplayName)
        GroupGrant(b) ==
            WithEntitlement(
                NewGrant(resource, resource.DisplayName \o <<":", "group", ":">> \o b,
                         ResourceId(<<"user">>, <<"group_member", ":">> \o b),
                         <<ExternalResourceMatch("TRAIT_GROUP", <<"name">>, b)>>
                         \o ExpansionAnnotations_roles121(resource, role)),
                EntitlementLiteral(resource.DisplayName \o <<":">> \o GroupAssignmentTitle(b),
                                   resource, GroupAssignmentTitle(b)))
        UserGrant(u) ==
            WithEntitlement(
                NewGrant(resource, resource.DisplayName \o <<":", "user", ":">> \o u,
                         ResourceId(<<"user">>, u),
                         <<ExternalResourceMatch("TRAIT_USER", <<"username">>, u)>>
                         \o ExpansionAnnotations_roles121(resource, role)),
                EntitlementLiteral(resource.DisplayName \o <<":">> \o UserAssignmentTitle(u),
                                   resource, UserAssignmentTitle(u)))
    IN  IF roleMapping.status # "ok" THEN Failed("Grants", "roles.go:121", r, "mapping")
        ELSE IF role.status # "ok" THEN Failed("Grants", "roles.go:121", r, "role")
        ELSE Returned("Grants", "roles.go:121", r, "nil", <<>>,
                MapSeq(GroupGrant, roleMapping.BackendRoles) \o MapSeq(UserGrant, roleMapping.Users),
                EmptyMap)

\* roles.go:431-445 and part_001:147-161: the match annotation of a user
\* grant under the configured match key.
UserMatchAnnotation(userMatchKey_, userIdentifier) ==
    IF userMatchKey_ = <<"id">>
    THEN ExternalResourceMatchID(userIdentifier)
    ELSE ExternalResourceMatch("TRAIT_USER", userMatchKey_, userIdentifier)

\* -------------------------------------------------- roles.go:364-458
\* roleBuilder.Grants, "assigned" revision: a NotFound mapping is no grants;
\* group grants expand the group's "member" entitlement.
Ret_Grants_roles364(r) ==
    LET resource == RoleResource(r)
        roleMapping == GetRoleMapping(resource.DisplayName)
        GroupBid(b) ==
            MakeBid(NewAssignmentEntitlement(
                [ResourceType |-> groupResourceType, Resource |-> b, DisplayName |-> <<>>],
                <<"member">>, <<>>))
        GroupGrant(b) ==
            NewGrant(resource, <<"assigned">>, ResourceId(groupResourceType, b),
                     <<ExternalResourceMatch("TRAIT_GROUP", <<"name">>, b),
                       GrantExpandable(<<GroupBid(b).bid>>, TRUE, <<>>)>>)
        UserGrant(u) ==
            NewGrant(resource, <<"assigned">>, ResourceId(userResourceType, u),
                     <<UserMatchAnnotation(GetUserMatchKey, u)>>)
    IN  IF roleMapping.status = "notfound" THEN Returned("Grants", "roles.go:364", r, "nil", <<>>, <<>>, EmptyMap)
        ELSE IF roleMapping.status # "ok" THEN Failed("Grants", "roles.go:364", r, "mapping")
        ELSE IF \E i \in 1..Len(roleMapping.BackendRoles) : GroupBid(roleMapping.BackendRoles[i]).err
        THEN Failed("Grants", "roles.go:364", r, "bid")
        ELSE Returned("Grants", "roles.go:364", r, "nil", <<>>,
                MapSeq(GroupGrant, roleMapping.BackendRoles) \o MapSeq(UserGrant, roleMapping.Users),
                EmptyMap)

\* -------------------------------------------------- roles.go:598-660
\* roleBuilder.Entitlements, permission revision: GetRole first; a NotFound
\* mapping leaves roleMapping nil and the permission entitlements are still
\* made; with a mapping, one group_assignment entitlement per backend role.
Ret_Entitlements_roles598(r) ==
    LET resource == RoleResource(r)
        role == GetRole(resource.DisplayName)
        roleMapping == GetRoleMapping(resource.DisplayName)
    IN  IF role.status # "ok" THEN Failed("Entitlements", "roles.go:598", r, "role")
        ELSE IF roleMapping.status = "error" THEN Failed("Entitlements", "roles.go:598", r, "mapping")
        ELSE Returned("Entitlements", "roles.go:598", r, "nil",
                MapSeq(LAMBDA perm : NewPermissionEntitlement(resource, ClusterLabel(perm), <<userResourceType>>),
                       role.ClusterPermissions)
                \o MapSeq(LAMBDA action : NewPermissionEntitlement(resource, IndexLabel(action), <<userResourceType>>),
                          AllowedActionsInOrder(role.IndexPermissions))
                \o (IF roleMapping.status = "ok"
                    THEN MapSeq(LAMBDA b : NewAssignmentEntitlement(resource, GroupAssignmentLabel(b), <<userResourceType>>),
                                roleMapping.BackendRoles)
                    ELSE <<>>),
                <<>>, EmptyMap)

\* -------------------------------------------------- roles.go:662-767
\* roleBuilder.Grants, permission revision: a NotFound mapping is no grants and
\* no error, before the role is read; group grants expand the group_assignment
\* entitlement; user grants carry the match annotation alone.
Ret_Grants_roles662(r) ==
    LET resource == RoleResource(r)
        roleMapping == GetRoleMapping(resource.DisplayName)
        role == GetRole(resource.DisplayName)
        groupAssignmentEntitlement(b) ==
            NewAssignmentEntitlement(resource, GroupAssignmentLabel(b), <<userResourceType>>)
        GroupGrant(b) ==
            WithEntitlement(
                NewGrant(resource, GroupAssignmentLabel(b),
                         ResourceId(<<"user">>, <<"group_member", ":">> \o b),
                         <<ExternalResourceMatch("TRAIT_GROUP", <<"name">>, b),
                           GrantExpandable(<<MakeBid(groupAssignmentEntitlement(b)).bid>>, TRUE, <<<<"user">>>>)>>),
                groupAssignmentEntitlement(b))
        UserGrant(u) ==
            NewGrant(resource, UserAssignmentLabel(u), ResourceId(<<"user">>, u),
                     <<ExternalResourceMatch("TRAIT_USER", <<"username">>, u)>>)
    IN  IF roleMapping.status = "notfound" THEN Returned("Grants", "roles.go:662", r, "nil", <<>>, <<>>, EmptyMap)
        ELSE IF roleMapping.status # "ok" THEN Failed("Grants", "roles.go:662", r, "mapping")
        ELSE IF role.status # "ok" THEN Failed("Grants", "roles.go:662", r, "role")
        ELSE IF \E i \in 1..Len(roleMapping.BackendRoles) :
                    MakeBid(groupAssignmentEntitlement(roleMapping.BackendRoles[i])).err
        THEN Failed("Grants", "roles.go:662", r, "bid")
        ELSE Returned("Grants", "roles.go:662", r, "nil", <<>>,
                MapSeq(GroupGrant, roleMapping.BackendRoles) \o MapSeq(UserGrant, roleMapping.Users),
                EmptyMap)

\* -------------------------------------------------- part_001:60-68
\* roleBuilder.Entitlements, match-key revision: the one "assigned" entitlement.
AssignedEntitlement(resource) ==
    NewAssignmentEntitlement(resource, <<"assigned">>, <<userResourceType, groupResourceType>>)

Ret_Entitlements_part001(r) ==
    Returned("Entitlements", "part_001:60", r, "nil", <<AssignedEntitlement(RoleResource(r))>>, <<>>, EmptyMap)

\* part_001:130-171: one pass of the user loop.  The wildcard adds the
\* match-all annotation; the match-key annotation is added after it in every case.
UserGrant_part001(resource, userIdentifier) ==
    NewGrant(resource, <<"assigned">>, ResourceId(userResourceType, userIdentifier),
             (IF userIdentifier = <<"*">> THEN <<ExternalResourceMatchAll("TRAIT_USER")>> ELSE <<>>)
             \o <<UserMatchAnnotation(GetUserMatchKey, userIdentifier)>>)

\* part_001:87-127: one pass of the backend-role loop.
GroupGrant_part001(resource, backendRole) ==
    NewGrant(resource, <<"assigned">>, ResourceId(groupResourceType, backendRole),
             <<ExternalResourceMatch("TRAIT_GROUP", <<"name">>, backendRole),
               GrantExpandable(<<MakeBid(AssignedEntitlement(resource)).bid>>, TRUE, <<>>)>>)

\* -------------------------------------------------- part_001:70-174
\* roleBuilder.Grants, match-key revision with the wildcard case.
Ret_Grants_part001(r) ==
    LET resource == RoleResource(r)
        roleMapping == GetRoleMapping(resource.DisplayName)
    IN  IF roleMapping.status = "notfound" THEN Returned("Grants", "part_001:70", r, "nil", <<>>, <<>>, EmptyMap)
        ELSE IF roleMapping.status # "ok" THEN Failed("Grants", "part_001:70", r, "mapping")
        ELSE IF Len(roleMapping.BackendRoles) > 0 /\ MakeBid(AssignedEntitlement(resource)).err
        THEN Failed("Grants", "part_001:70", r, "bid")
        ELSE Returned("Grants", "part_001:70", r, "nil", <<>>,
                MapSeq(LAMBDA b : GroupGrant_part001(resource, b), roleMapping.BackendRoles)
                \o MapSeq(LAMBDA u : UserGrant_part001(resource, u), roleMapping.Users),
                EmptyMap)

\* -------------------------------------------------- helpers.go:14-63
\* createRoleEntitlements, the revision without an id map: never fails.
createRoleEntitlements_helpers(roleResource, role, roleMapping) ==
    [err |-> "nil", entitlements |-> RoleEntitlementList(roleResource, role, roleMapping)]

\* -------------------------------------------------- part_000:301-325
\* roleBuilder.Entitlements over helpers.go.
Ret_Entitlements_part000(r) ==
    LET resource == RoleResource(r)
        roleMapping == GetRoleMapping(resource.DisplayName)
        role == GetRole(resource.DisplayName)
        made == createRoleEntitlements_helpers(resource, role, roleMapping)
    IN  IF roleMapping.status # "ok" THEN Failed("Entitlements", "part_000:301", r, "mapping")
        ELSE IF role.status # "ok" THEN Failed("Entitlements", "part_000:301", r, "role")
        ELSE Returned("Entitlements", "part_000:301", r, made.err, made.entitlements, <<>>, EmptyMap)

\* -------------------------------------------------- role_mappings.go:162-313
\* roleMappingBuilder.Grants on the role_mapping resource of a name: the user
\* grants, then the backend-role grants, each matched on a user trait; the
\* expansion annotation lists the looked-up keys themselves.
RoleMappingResource(name) ==
    [ResourceType |-> <<"role_mapping">>, Resource |-> name, DisplayName |-> name]

BackendRoleAssignmentTitle(backendRole) == <<"Backend Role Assignment", ":", " ">> \o backendRole

Ret_Grants_roleMapping(r) ==
    LET resource == RoleMappingResource(r)
        roleMapping == GetRoleMapping(resource.DisplayName)
        role == GetRole(resource.DisplayName)
        UserGrant(u) ==
            WithEntitlement(
                NewGrant(resource, resource.DisplayName \o <<":", "user", ":">> \o u,
                         ResourceId(<<"user">>, u),
                         <<ExternalResourceMatch("TRAIT_USER", <<"username">>, u)>>
                         \o ExpansionAnnotations_roles121(resource, role)),
                EntitlementLiteral(<<"role_mapping", ":">> \o resource.DisplayName \o <<":">> \o UserAssignmentTitle(u),
                                   resource, UserAssignmentTitle(u)))
        BackendRoleGrant(b) ==
            WithEntitlement(
                NewGrant(resource, resource.DisplayName \o <<":", "backend_role", ":">> \o b,
                         ResourceId(<<"user">>, <<"backend_role", ":">> \o b),
                         <<ExternalResourceMatch("TRAIT_USER", <<"backend_role">>, b)>>
                         \o ExpansionAnnotations_roles121(resource, role)),
                EntitlementLiteral(<<"role_mapping", ":">> \o resource.DisplayName \o <<":">> \o BackendRoleAssignmentTitle(b),
                                   resource, BackendRoleAssignmentTitle(b)))
    IN  IF roleMapping.status # "ok" THEN Failed("Grants", "role_mappings.go:162", r, "mapping")
        ELSE IF role.status # "ok" THEN Failed("Grants", "role_mappings.go:162", r, "role")
        ELSE Returned("Grants", "role_mappings.go:162", r, "nil", <<>>,
                MapSeq(UserGrant, roleMapping.Users) \o MapSeq(BackendRoleGrant, roleMapping.BackendRoles),
                EmptyMap)

\* -------------------------------------------------- part_002 (cached builder)
Range(f) == {f[x] : x \in DOMAIN f}

\* No successful Entitlements call on the present source data yet.
NotSeen == [runs |-> 0, entitlements |-> <<>>, entitlementBidMap |-> EmptyMap]

\* The record of a successful Entitlements call: the first return on the present
\* source data is kept, and the calls are counted up to the second.
Seen(before, ret) ==
    IF before.runs = 0
    THEN [runs |-> 1, entitlements |-> ret.entitlements, entitlementBidMap |-> ret.entitlementBidMap]
    ELSE [before EXCEPT !.runs = 2]

\* A cache of one slot shared by the roles: the assignment reaches every entry.
CachePut_sharedSlot(cache, id, m) == [x \in (DOMAIN cache) \cup {id} |-> m]

\* o.entitlementBidCache[resource.Id.Resource] = entitlementBidMap
CachePut(cache, id, m) == [x \in (DOMAIN cache) \cup {id} |-> IF x = id THEN m ELSE cache[x]]

\* make(map[string]map[string]string)
EmptyCache == [x \in {} |-> EmptyMap]

\* Entitlements that hands back nothing new for a role the cache already holds.
Ret_Entitlements_part002_cachedSkips(r) ==
    LET resource == RoleResource(r)
        made == createRoleEntitlements(resource, GetRole(r), GetRoleMapping(r))
    IN  IF GetRoleMapping(r).status # "ok" \/ GetRole(r).status # "ok" \/ made.err # "nil"
        THEN [ret |-> Failed("Entitlements", "part_002:59", r, "mapping"), cache |-> entitlementBidCache, made |-> {}, wrote |-> FALSE]
        ELSE IF resource.Resource \in DOMAIN entitlementBidCache
        THEN [ret |-> Returned("Entitlements", "part_002:59", r, "nil", <<>>, <<>>,
                               entitlementBidCache[resource.Resource]),
              cache |-> entitlementBidCache, made |-> {}, wrote |-> FALSE]
        ELSE [ret |-> Returned("Entitlements", "part_002:59", r, "nil", made.entitlements, <<>>, made.entitlementBidMap),
              cache |-> CachePut(entitlementBidCache, resource.Resource, made.entitlementBidMap),
              made |-> Range(made.entitlementBidMap), wrote |-> TRUE]

\* part_002:59-86 roleBuilder.Entitlements with o.entitlementBidCache = c:
\* (returned, cache after).
Ret_Entitlements_on(c, r) ==
    LET resource == RoleResource(r)
        roleMapping == GetRoleMapping(resource.DisplayName)
        role == GetRole(resource.DisplayName)
        made == createRoleEntitlements(resource, role, roleMapping)
    IN  IF roleMapping.status # "ok"
        THEN [ret |-> Failed("Entitlements", "part_002:59", r, "mapping"), cache |-> c, made |-> {}, wrote |-> FALSE]
        ELSE IF role.status # "ok"
        THEN [ret |-> Failed("Entitlements", "part_002:59", r, "role"), cache |-> c, made |-> {}, wrote |-> FALSE]
        ELSE IF made.err # "nil"
        THEN [ret |-> Failed("Entitlements", "part_002:59", r, made.err), cache |-> c, made |-> {}, wrote |-> FALSE]
        ELSE [ret |-> Returned("Entitlements", "part_002:59", r, "nil", made.entitlements, <<>>, made.entitlementBidMap),
              cache |-> CachePut(c, resource.Resource, made.entitlementBidMap),
              made |-> Range(made.entitlementBidMap), wrote |-> TRUE]

\* o.Entitlements: the method on the builder's own cache.
Ret_Entitlements_part002(r) == Ret_Entitlements_on(entitlementBidCache, r)

Entitlements_part002(r) ==
    LET out == Ret_Entitlements_part002(r)
    IN  /\ last' = [out.ret EXCEPT !.cacheWritten = out.wrote]
        /\ entitlementBidCache' = out.cache
        /\ produced' = [produced EXCEPT ![r] = @ \cup out.made]
        /\ entSeen' = IF out.ret.err = "nil"
                      THEN [entSeen EXCEPT ![r] = Seen(@, out.ret)]
                      ELSE entSeen
        /\ UNCHANGED env

\* Grants whose miss path uses the map it made and does not store it.
Ret_Grants_on_missNotStored(c, r) ==
    LET resource == RoleResource(r)
        roleMapping == GetRoleMapping(resource.DisplayName)
        role == GetRole(resource.DisplayName)
        exists == resource.Resource \in DOMAIN c
        made == createRoleEntitlements(resource, role, roleMapping)
        entitlementBidMap == IF exists THEN c[resource.Resource] ELSE made.entitlementBidMap
        granted == createRoleGrants(resource, role, roleMapping, entitlementBidMap)
        failure == IF roleMapping.status # "ok" THEN "mapping"
                   ELSE IF role.status # "ok" THEN "role"
                   ELSE IF ~exists /\ made.err # "nil" THEN made.err
                   ELSE granted.err
    IN  [ret |-> IF failure # "nil" THEN Failed("Grants", "part_002:89", r, failure)
                 ELSE Returned("Grants", "part_002:89", r, "nil", <<>>, granted.grants, entitlementBidMap),
         cache |-> c, made |-> {}, wrote |-> FALSE]

\* part_002:89-125 roleBuilder.Grants with o.entitlementBidCache = c:
\* (returned, cache after).  The id map is
\* the cached one when the role has an entry, else it is made and stored.
Ret_Grants_on(c, r) ==
    LET resource == RoleResource(r)
        roleMapping == GetRoleMapping(resource.DisplayName)
        role == GetRole(resource.DisplayName)
        exists == resource.Resource \in DOMAIN c
        made == createRoleEntitlements(resource, role, roleMapping)
        entitlementBidMap == IF exists THEN c[resource.Resource] ELSE made.entitlementBidMap
        cache1 == IF exists THEN c
                  ELSE CachePut(c, resource.Resource, made.entitlementBidMap)
        made1 == IF exists THEN {} ELSE Range(made.entitlementBidMap)
        granted == createRoleGrants(resource, role, roleMapping, entitlementBidMap)
    IN  IF roleMapping.status # "ok"
        THEN [ret |-> Failed("Grants", "part_002:89", r, "mapping"), cache |-> c, made |-> {}, wrote |-> FALSE]
        ELSE IF role.status # "ok"
        THEN [ret |-> Failed("Grants", "part_002:89", r, "role"), cache |-> c, made |-> {}, wrote |-> FALSE]
        ELSE IF ~exists /\ made.err # "nil"
        THEN [ret |-> Failed("Grants", "part_002:89", r, made.err), cache |-> c, made |-> {}, wrote |-> FALSE]
        ELSE IF granted.err # "nil"
        THEN [ret |-> Failed("Grants", "part_002:89", r, granted.err), cache |-> cache1, made |-> made1, wrote |-> ~exists]
        ELSE [ret |-> Returned("Grants", "part_002:89", r, "nil", <<>>, granted.grants, entitlementBidMap),
              cache |-> cache1, made |-> made1, wrote |-> ~exists]

\* o.Grants: the method on the builder's own cache.
Ret_Grants_part002(r) == Ret_Grants_on(entitlementBidCache, r)

Grants_part002(r) ==
    LET out == Ret_Grants_part002(r)
    IN  /\ last' = [out.ret EXCEPT !.cacheWritten = out.wrote]
        /\ entitlementBidCache' = out.cache
        /\ produced' = [produced EXCEPT ![r] = @ \cup out.made]
        /\ UNCHANGED <<env, entSeen>>

\* client.GetRoles ranges over the decoded JSON object: the roles in any order.
RoleOrders == {o \in [1..Cardinality(DOMAIN roleSrc) -> DOMAIN roleSrc] :
                    \A i, j \in DOMAIN o : o[i] = o[j] => i = j}

\* List without line 32: the cache outlives the pass.
List_part002_keepsCache(getRolesFails) ==
    /\ \E roles \in RoleOrders :
            last' = IF getRolesFails THEN Failed("List", "part_002:24", <<>>, "roles")
                    ELSE [Returned("List", "part_002:24", <<>>, "nil", <<>>, <<>>, EmptyMap)
                            EXCEPT !.resources = MapSeq(RoleResource, roles)]
    /\ UNCHANGED <<env, builderState>>

\* part_002:24-56 roleBuilder.List: GetRoles fails and nothing changes, or the
\* cache is replaced by an empty one and the role resources are returned.
List_part002(getRolesFails) ==
    /\ \E roles \in RoleOrders :
            last' = IF getRolesFails THEN Failed("List", "part_002:24", <<>>, "roles")
                    ELSE [Returned("List", "part_002:24", <<>>, "nil", <<>>, <<>>, EmptyMap)
                            EXCEPT !.resources = MapSeq(RoleResource, roles)]
    /\ entitlementBidCache' = IF getRolesFails THEN entitlementBidCache ELSE EmptyCache
    /\ produced' = IF getRolesFails THEN produced ELSE [r \in DOMAIN produced |-> {}]
    /\ UNCHANGED <<env, entSeen>>

\* The external system changes a role or its mapping between two calls.
SourceChange(r) ==
    /\ changes < MaxChanges
    /\ changes' = changes + 1
    /\ \/ \E v \in PassRoleValues \ {roleSrc[r]} :
            roleSrc' = [roleSrc EXCEPT ![r] = v] /\ UNCHANGED mappingSrc
       \/ \E v \in PassMappingValues \ {mappingSrc[r]} :
            mappingSrc' = [mappingSrc EXCEPT ![r] = v] /\ UNCHANGED roleSrc
    /\ entSeen' = [entSeen EXCEPT ![r] = NotSeen]
    /\ last' = NothingReturned
    /\ UNCHANGED <<userMatchKey, bidUnrepresentable, entitlementBidCache, produced, pc, runtime, client>>

\* ------------------------------------------- part_002 on two goroutines
\* The pipeline of a role (Entitlements, then Grants) on a goroutine of its
\* own.  roleBuilder holds no mutex: the assignment
\* o.entitlementBidCache[id] = m loads the map o.entitlementBidCache refers to
\* and then runs the runtime's map assignment on it, and neither step excludes
\* another goroutine's.  at is the position; replaced says that List has made
\* o.entitlementBidCache refer to another map since this goroutine loaded it;
\* raced says that another goroutine was assigning to the same map meanwhile.
At(at) == [at |-> at, replaced |-> FALSE, raced |-> FALSE]
Idle == At("idle")
Assigning(r) == pc[r].at = "assign"

\* part_002:59-79 Entitlements up to the cache assignment: the two GETs and
\* createRoleEntitlements; an error returns, else the assignment begins.
EntitlementsBegin(r) ==
    LET out == Ret_Entitlements_on(entitlementBidCache, r)
        here == [At("assign") EXCEPT !.raced = \E o \in DOMAIN pc \ {r} : Assigning(o) /\ ~pc[o].replaced]
    IN  /\ runtime = "running"
        /\ pc[r].at = "idle"
        /\ IF out.ret.err # "nil"
           THEN /\ pc' = [pc EXCEPT ![r] = At("failed")]
                /\ last' = out.ret
           ELSE /\ pc' = [o \in DOMAIN pc |->
                            IF o = r THEN here
                            ELSE IF Assigning(o) /\ ~pc[o].replaced THEN [pc[o] EXCEPT !.raced = TRUE]
                            ELSE pc[o]]
                /\ UNCHANGED last
        /\ UNCHANGED <<source, client, runtime, builderState>>

\* part_002:80-82 the assignment ends and Entitlements returns.  An assignment
\* to a map List has replaced is not in o.entitlementBidCache.  One that ran
\* beside another goroutine's is a data race on a Go map: the entry is stored,
\* or it is not, or the runtime throws "concurrent map writes".
EntitlementsEnd(r) ==
    LET out == Ret_Entitlements_on(entitlementBidCache, r)
        returned == [out.ret EXCEPT !.cacheWritten = TRUE]
    IN  /\ runtime = "running"
        /\ Assigning(r)
        /\ \/ /\ ~pc[r].replaced
              /\ entitlementBidCache' = out.cache
              /\ pc' = [pc EXCEPT ![r] = At("entitled")]
              /\ last' = returned
              /\ UNCHANGED runtime
           \/ /\ pc[r].replaced \/ pc[r].raced
              /\ pc' = [pc EXCEPT ![r] = At("entitled")]
              /\ last' = returned
              /\ UNCHANGED <<entitlementBidCache, runtime>>
           \/ /\ pc[r].raced
              /\ runtime' = "fatal"
              /\ UNCHANGED <<entitlementBidCache, pc, last>>
        /\ UNCHANGED <<source, client, produced, entSeen>>

\* part_002:89-125 Grants of the pipeline, after Entitlements has returned.  Its
\* lookup (and its assignment on a miss) beside another goroutine's assignment
\* to the same map is the same data race: the call completes or the runtime
\* throws "concurrent map read and map write".
GrantsAfter(r) ==
    LET out == Ret_Grants_on(entitlementBidCache, r)
        racing == \E o \in DOMAIN pc \ {r} : Assigning(o) /\ ~pc[o].replaced
    IN  /\ runtime = "running"
        /\ pc[r].at = "entitled"
        /\ \/ /\ entitlementBidCache' = out.cache
              /\ pc' = [o \in DOMAIN pc |->
                            IF o = r THEN At("done")
                            ELSE IF racing /\ Assigning(o) /\ ~pc[o].replaced
                            THEN [pc[o] EXCEPT !.raced = TRUE]
                            ELSE pc[o]]
              /\ last' = [out.ret EXCEPT !.cacheWritten = out.wrote]
              /\ UNCHANGED runtime
           \/ /\ racing
              /\ runtime' = "fatal"
              /\ UNCHANGED <<entitlementBidCache, pc, last>>
        /\ UNCHANGED <<source, client, produced, entSeen>>

\* part_002:24-56 List beside the pipelines: line 32 makes
\* o.entitlementBidCache refer to a new map, and an assignment that is under
\* way stays on the map it loaded.
ListBeside(getRolesFails) ==
    /\ runtime = "running"
    /\ \E roles \in RoleOrders :
            last' = IF getRolesFails THEN Failed("List", "part_002:24", <<>>, "roles")
                    ELSE [Returned("List", "part_002:24", <<>>, "nil", <<>>, <<>>, EmptyMap)
                            EXCEPT !.resources = MapSeq(RoleResource, roles)]
    /\ entitlementBidCache' = IF getRolesFails THEN entitlementBidCache ELSE EmptyCache
    /\ pc' = IF getRolesFails THEN pc
             ELSE [o \in DOMAIN pc |-> IF Assigning(o) THEN [pc[o] EXCEPT !.replaced = TRUE] ELSE pc[o]]
    /\ UNCHANGED <<source, client, runtime, produced, entSeen>>

\* ------------------------------------------------- part_006:222-387 client
\* Texts compared letter by letter are sequences of one-letter strings.
UpperLetters == <<"A", "B", "C", "D", "E", "F", "G", "H", "I", "J", "K", "L", "M",
                  "N", "O", "P", "Q", "R", "S", "T", "U", "V", "W", "X", "Y", "Z">>
LowerLetters == <<"a", "b", "c", "d", "e", "f", "g", "h", "i", "j", "k", "l", "m",
                  "n", "o", "p", "q", "r", "s", "t", "u", "v", "w", "x", "y", "z">>

\* The letter every case variant of ch folds to.
FoldLetter(ch) ==
    IF \E i \in 1..26 : UpperLetters[i] = ch
    THEN LowerLetters[CHOOSE i \in 1..26 : UpperLetters[i] = ch]
    ELSE ch

\* The comparison by ==, which tells the case variants apart.
EqualFold_caseSensitive(s, t) == s = t

\* strings.EqualFold(s, t)
EqualFold(s, t) ==
    /\ Len(s) = Len(t)
    /\ \A i \in 1..Len(s) : FoldLetter(s[i]) = FoldLetter(t[i])

opensearch == <<"o", "p", "e", "n", "s", "e", "a", "r", "c", "h">>
PluginsSecurityPath == <<"/_plugins", "/_security", "/api">>
OpendistroSecurityPath == <<"/_opendistro", "/_security", "/api">>

\* &Client{...}: the fields NewClient sets; nil is the record with exists = FALSE.
ClientOf(address, username, password, matchKey, path) ==
    [exists |-> TRUE, baseURL |-> address, username |-> username, password |-> password,
     userMatchKey |-> matchKey, securityPath |-> path]
NilClient ==
    [exists |-> FALSE, baseURL |-> <<>>, username |-> <<>>, password |-> <<>>,
     userMatchKey |-> <<>>, securityPath |-> <<>>]

\* What GET <baseURL>/ yields: c.httpClient.Do fails, or hands back a response
\* of that status whose body io.ReadAll reads or not, is JSON of the expected
\* shape or not, and carries version.distribution or not.
ServerResponse(doErr, status, readable, json, hasDistribution, distribution) ==
    [doErr |-> doErr, status |-> status, readable |-> readable, json |-> json,
     hasDistribution |-> hasDistribution, distribution |-> distribution]

\* json.Unmarshal(body, &versionInfo): versionInfo.Version.Distribution, the
\* zero value when the body has no such field.
DecodedDistribution(resp) == IF resp.hasDistribution THEN resp.distribution ELSE <<>>

\* url.Parse(address): "missing protocol scheme" for a text that starts with
\* the colon, else the URL.
urlParse(address) == [err |-> address # <<>> /\ Head(address) = ":", url |-> address]

\* getPath(base, elem...): url.JoinPath and url.Parse of the base once more.
getPath(base) == urlParse(base)

\* part_006:249-296 detectSecurityAPIPath on client c, the server answering
\* resp: (err, c after).
detectSecurityAPIPath(c, resp) ==
    IF getPath(c.baseURL).err THEN [err |-> "path", client |-> c]
    ELSE IF resp.doErr THEN [err |-> "request", client |-> c]
    ELSE IF resp.status = 401 THEN [err |-> "unauthorized", client |-> c]
    ELSE IF ~resp.readable THEN [err |-> "read", client |-> c]
    ELSE IF ~resp.json THEN [err |-> "parse", client |-> c]
    ELSE IF DecodedDistribution(resp) # <<>> /\ EqualFold(DecodedDistribution(resp), opensearch)
    THEN [err |-> "nil", client |-> [c EXCEPT !.securityPath = PluginsSecurityPath]]
    ELSE [err |-> "nil", client |-> [c EXCEPT !.securityPath = OpendistroSecurityPath]]

\* &tls.Config{...} and the nil *tls.Config.
TLSConfig(insecure, minVersion, rootCAs) ==
    [isNil |-> FALSE, InsecureSkipVerify |-> insecure, MinVersion |-> minVersion, RootCAs |-> rootCAs]
NilTLSConfig ==
    [isNil |-> TRUE, InsecureSkipVerify |-> FALSE, MinVersion |-> "0", RootCAs |-> "nil"]

\* The certificate data handed to getTLSConfig: nil or empty, PEM text that
\* AppendCertsFromPEM finds a certificate in, or bytes it finds none in.
CredentialKinds == {"nil", "empty", "pem", "garbage"}
BytesLen(credentials) == IF credentials \in {"nil", "empty"} THEN 0 ELSE 1
AppendCertsFromPEM(credentials) == credentials = "pem"

\* getTLSConfig that parses the certificate data before it looks at
\* insecureSkipVerify.
getTLSConfig_certsFirst(insecureSkipVerify, credentials, systemPoolOk) ==
    IF BytesLen(credentials) # 0 /\ ~AppendCertsFromPEM(credentials)
    THEN [err |-> "cacert", config |-> NilTLSConfig]
    ELSE IF insecureSkipVerify
    THEN [err |-> "nil", config |-> TLSConfig(TRUE, "0", "nil")]
    ELSE IF BytesLen(credentials) = 0
    THEN IF ~systemPoolOk
         THEN [err |-> "systempool", config |-> NilTLSConfig]
         ELSE [err |-> "nil", config |-> TLSConfig(FALSE, "TLS12", "system")]
    ELSE [err |-> "nil", config |-> TLSConfig(FALSE, "TLS12", "parsed")]

\* part_006:341-377 getTLSConfig(ctx, insecureSkipVerify, credentials) where
\* x509.SystemCertPool() succeeds or not: (config, err).
getTLSConfig(insecureSkipVerify, credentials, systemPoolOk) ==
    IF insecureSkipVerify
    THEN [err |-> "nil", config |-> TLSConfig(TRUE, "0", "nil")]
    ELSE IF BytesLen(credentials) = 0
    THEN IF ~systemPoolOk
         THEN [err |-> "systempool", config |-> NilTLSConfig]
         ELSE [err |-> "nil", config |-> TLSConfig(FALSE, "TLS12", "system")]
    ELSE IF ~AppendCertsFromPEM(credentials)
    THEN [err |-> "cacert", config |-> NilTLSConfig]
    ELSE [err |-> "nil", config |-> TLSConfig(FALSE, "TLS12", "parsed")]

\* NewClient that hands the detection error on to its caller.
NewClient_detectionFatal(address, username, password, matchKey, insecureSkipVerify, credentials, systemPoolOk, httpClientOk, resp) ==
    LET tls == getTLSConfig(insecureSkipVerify, credentials, systemPoolOk)
        parsedURL == urlParse(address)
        c == ClientOf(parsedURL.url, username, password, matchKey, PluginsSecurityPath)
        detected == detectSecurityAPIPath(c, resp)
    IN  IF tls.err # "nil" \/ ~httpClientOk \/ parsedURL.err \/ detected.err # "nil"
        THEN [err |-> "failed", client |-> NilClient]
        ELSE [err |-> "nil", client |-> detected.client]

\* part_006:298-338 NewClient, where x509.SystemCertPool and
\* uhttp.NewBaseHttpClientWithContext succeed or not and the server answers
\* resp to the detection request: (client, err).
NewClient(address, username, password, matchKey, insecureSkipVerify, credentials, systemPoolOk, httpClientOk, resp) ==
    LET tls == getTLSConfig(insecureSkipVerify, credentials, systemPoolOk)
        parsedURL == urlParse(address)
        c == ClientOf(parsedURL.url, username, password, matchKey, PluginsSecurityPath)
    IN  IF tls.err # "nil" THEN [err |-> "tls", client |-> NilClient]
        ELSE IF ~httpClientOk THEN [err |-> "httpclient", client |-> NilClient]
        ELSE IF parsedURL.err THEN [err |-> "address", client |-> NilClient]
        ELSE [err |-> "nil", client |-> detectSecurityAPIPath(c, resp).client]

\* What an operation of the client package or of main returned, beside the
\* arguments it was called with.
Called(op, src, args, ret) == [op |-> op, src |-> src, args |-> args, ret |-> ret]

AddressPool == {<<"http", "://", "localhost:9200">>, <<":", "//", "invalid-url">>}
DistributionPool ==
    {<<>>, opensearch,
     <<"O", "p", "e", "n", "S", "e", "a", "r", "c", "h">>,
     <<"O", "P", "E", "N", "S", "E", "A", "R", "C", "H">>,
     <<"o", "p", "e", "n", "s", "e", "a", "r", "c">>,
     <<"e", "l", "a", "s", "t", "i", "c", "s", "e", "a", "r", "c", "h">>}
ResponsePool ==
    {ServerResponse(TRUE, 0, FALSE, FALSE, FALSE, <<>>),
     ServerResponse(FALSE, 401, TRUE, TRUE, FALSE, <<>>),
     ServerResponse(FALSE, 401, TRUE, TRUE, TRUE, opensearch),
     ServerResponse(FALSE, 200, FALSE, FALSE, FALSE, <<>>),
     ServerResponse(FALSE, 200, TRUE, FALSE, FALSE, <<>>),
     ServerResponse(FALSE, 500, TRUE, FALSE, FALSE, <<>>),
     ServerResponse(FALSE, 200, TRUE, TRUE, FALSE, <<>>)}
    \cup {ServerResponse(FALSE, 200, TRUE, TRUE, TRUE, d) : d \in DistributionPool}

\* The answers NewClient is tried with, the match keys and the certificate data.
FirstResponsePool ==
    {ServerResponse(TRUE, 0, FALSE, FALSE, FALSE, <<>>),
     ServerResponse(FALSE, 500, TRUE, FALSE, FALSE, <<>>),
     ServerResponse(FALSE, 200, TRUE, TRUE, TRUE, opensearch),
     ServerResponse(FALSE, 200, TRUE, TRUE, FALSE, <<>>)}
ClientMatchKeys == {<<"email">>, <<"username">>}
ClientCredentialKinds == {"nil", "pem", "garbage"}

\* The process builds its client once.
Call_NewClient(address, matchKey, insecureSkipVerify, credentials, systemPoolOk, httpClientOk, resp) ==
    LET args == [address |-> address, username |-> <<"admin">>, password |-> <<"secret">>,
                 userMatchKey |-> matchKey, insecureSkipVerify |-> insecureSkipVerify,
                 credentials |-> credentials, systemPoolOk |-> systemPoolOk,
                 httpClientOk |-> httpClientOk, resp |-> resp]
        out == NewClient(address, args.username, args.password, matchKey, insecureSkipVerify,
                         credentials, systemPoolOk, httpClientOk, resp)
    IN  /\ ~client.exists
        /\ client' = out.client
        /\ last' = Called("NewClient", "part_006:298", args, out)
        /\ UNCHANGED <<source, pc, runtime, builderState>>

\* detectSecurityAPIPath called again on the client at hand.
Call_detectSecurityAPIPath(resp) ==
    LET out == detectSecurityAPIPath(client, resp)
    IN  /\ client.exists
        /\ client' = out.client
        /\ last' = Called("detectSecurityAPIPath", "part_006:249", [before |-> client, resp |-> resp], out)
        /\ UNCHANGED <<source, pc, runtime, builderState>>

Apply_getTLSConfig(insecureSkipVerify, credentials, systemPoolOk) ==
    /\ last' = Called("getTLSConfig", "part_006:341",
                      [insecureSkipVerify |-> insecureSkipVerify, credentials |-> credentials,
                       systemPoolOk |-> systemPoolOk],
                      getTLSConfig(insecureSkipVerify, credentials, systemPoolOk))
    /\ UNCHANGED <<env, builderState>>

\* ------------------------------------------------ main.go:45-93, config
\* cfg.Opensearch: the configuration values getConnector reads.
Opensearch(address, username, password, insecureSkipVerify, caCertPath, caCert) ==
    [Address |-> address, Username |-> username, Password |-> password,
     InsecureSkipVerify |-> insecureSkipVerify, CaCertPath |-> caCertPath, CaCert |-> caCert]

\* The fields of ConfigurationFields declared field.WithRequired(true), in order,
\* and the configuration value each names.
RequiredFields == <<"address", "username", "password">>
FieldValue(osc, name) ==
    CASE name = "address" -> osc.Address
      [] name = "username" -> osc.Username
      [] name = "password" -> osc.Password
      [] name = "ca-cert-path" -> osc.CaCertPath
      [] name = "ca-cert" -> osc.CaCert

\* Validation that stops at the first required field without a value.
MissingRequired_firstOnly(osc) ==
    LET all == SelectSeq(RequiredFields, LAMBDA f : FieldValue(osc, f) = <<>>)
    IN  IF all = <<>> THEN <<>> ELSE <<Head(all)>>

\* field.Validate: "<name> of type string is marked as required but it has a
\* zero-value" for every required field without a value.
MissingRequired(osc) == SelectSeq(RequiredFields, LAMBDA f : FieldValue(osc, f) = <<>>)

\* The sets of fields of which the configuration may set one only.
MutuallyExclusiveFields == {{"ca-cert-path", "ca-cert"}}
ExclusionViolated(osc) ==
    \E group \in MutuallyExclusiveFields :
        Cardinality({f \in group : FieldValue(osc, f) # <<>>}) > 1

\* field.Validate(cfg.Config, osc): (err, the required fields reported missing).
Validate(osc) ==
    [err |-> MissingRequired(osc) # <<>> \/ ExclusionViolated(osc),
     missing |-> MissingRequired(osc)]

\* getConnector that logs the validation error and goes on.
getConnector_validationIgnored(osc, fileRead, built) ==
    LET credentials == IF osc.InsecureSkipVerify THEN "nil"
                       ELSE IF osc.CaCertPath # <<>> THEN fileRead
                       ELSE IF osc.CaCert # <<>> THEN "pem"
                       ELSE "nil"
    IN  [err |-> "nil", stage |-> "done", missing |-> <<>>, credentials |-> credentials,
         fromPath |-> ~osc.InsecureSkipVerify /\ osc.CaCertPath # <<>>, connector |-> TRUE]

\* main.go:45-93 getConnector(ctx, osc), where os.ReadFile yields fileRead (an
\* error or the file's bytes) and connector.New with connectorbuilder.NewConnector
\* yields built: (connector or nil, err), with the step that returned, the
\* certificate data handed to connector.New and whether it came from the path.
getConnector(osc, fileRead, built) ==
    LET valid == Validate(osc)
        fromPath == ~osc.InsecureSkipVerify /\ osc.CaCertPath # <<>>
        credentials == IF osc.InsecureSkipVerify THEN "nil"
                       ELSE IF osc.CaCertPath # <<>> THEN fileRead
                       ELSE IF osc.CaCert # <<>> THEN "pem"
                       ELSE "nil"
        nothing == [err |-> "nil", stage |-> "validate", missing |-> <<>>, credentials |-> "nil",
                    fromPath |-> FALSE, connector |-> FALSE]
    IN  IF valid.err
        THEN [nothing EXCEPT !.err = "validation", !.missing = valid.missing]
        ELSE IF fromPath /\ fileRead = "readError"
        THEN [nothing EXCEPT !.err = "readfile", !.stage = "certificates", !.fromPath = TRUE]
        ELSE IF built # "ok"
        THEN [nothing EXCEPT !.err = built, !.stage = "new", !.credentials = credentials,
                             !.fromPath = fromPath]
        ELSE [nothing EXCEPT !.stage = "done", !.credentials = credentials,
                             !.fromPath = fromPath, !.connector = TRUE]

\* The configurations, file contents and construction outcomes tried.
ConfigPool ==
    {Opensearch(a, u, p, i, path, cert) :
        a \in {<<>>, <<"http", "://", "localhost:9200">>}, u \in {<<>>, <<"admin">>},
        p \in {<<>>, <<"secret">>}, i \in BOOLEAN,
        path \in {<<>>, <<"/etc/ca.pem">>}, cert \in {<<>>, <<"-----BEGIN CERTIFICATE-----">>}}

Call_getConnector(osc, fileRead, built) ==
    /\ last' = Called("getConnector", "main.go:45",
                      [osc |-> osc, fileRead |-> fileRead, built |-> built],
                      getConnector(osc, fileRead, built))
    /\ UNCHANGED <<env, builderState>>

\* ------------------------------------------------------ stateless builders
Stateless(ret) == last' = ret /\ UNCHANGED <<env, builderState>>

Entitlements_roles57(r) == Stateless(Ret_Entitlements_roles57(r))
Grants_roles121(r) == Stateless(Ret_Grants_roles121(r))
Grants_roles364(r) == Stateless(Ret_Grants_roles364(r))
Entitlements_roles598(r) == Stateless(Ret_Entitlements_roles598(r))
Grants_roles662(r) == Stateless(Ret_Grants_roles662(r))
Entitlements_part001(r) == Stateless(Ret_Entitlements_part001(r))
Grants_part001(r) == Stateless(Ret_Grants_part001(r))
Entitlements_part000(r) == Stateless(Ret_Entitlements_part000(r))
Grants_roleMapping(r) == Stateless(Ret_Grants_roleMapping(r))

\* createRoleEntitlements applied to a role and a mapping that were read.
Apply_createRoleEntitlements(r) ==
    /\ GetRole(r).status = "ok" /\ GetRoleMapping(r).status = "ok"
    /\ LET made == createRoleEntitlements(RoleResource(r), GetRole(r), GetRoleMapping(r))
       IN  Stateless(Returned("createRoleEntitlements", "role_mappings.go:349", r, made.err,
                              made.entitlements, <<>>, made.entitlementBidMap))

\* createRoleGrants applied to a role, a mapping and the id map made from them.
Apply_createRoleGrants(r) ==
    /\ GetRole(r).status = "ok" /\ GetRoleMapping(r).status = "ok"
    /\ LET made == createRoleEntitlements(RoleResource(r), GetRole(r), GetRoleMapping(r))
           granted == createRoleGrants(RoleResource(r), GetRole(r), GetRoleMapping(r), made.entitlementBidMap)
       IN  /\ made.err = "nil"
           /\ Stateless(Returned("createRoleGrants", "role_mappings.go:440", r, granted.err,
                                 made.entitlements, granted.grants, made.entitlementBidMap))

\* ------------------------------------------------------- specifications
SynthRoleNames == {<<"analyst">>}
PassRoleNames == {<<"analyst">>}

\* The sets of slugs bid.MakeBid may fail on: none, or the one of a permission.
BidFailures == {{}, {IndexLabel(<<"write">>)}}
PassBidFailures == {{}, {ClusterLabel(<<"cluster", ":", "get">>)}, {<<>>}}

InitBuilder ==
    /\ entitlementBidCache = EmptyCache
    /\ produced = [r \in DOMAIN roleSrc |-> {}]
    /\ entSeen = [r \in DOMAIN roleSrc |-> NotSeen]
    /\ changes = 0
    /\ pc = [r \in DOMAIN roleSrc |-> Idle]
    /\ runtime = "running"
    /\ client = NilClient
    /\ last = NothingReturned

\* The synthesis model: every revision applied to every bounded role and mapping.
Init ==
    /\ roleSrc \in [SynthRoleNames -> BoundedRoles \cup {RoleFailed}]
    /\ mappingSrc \in [SynthRoleNames -> MappingValues \cup {MappingNotFound, MappingFailed}]
    /\ userMatchKey \in MatchKeys
    /\ bidUnrepresentable \in BidFailures
    /\ InitBuilder

Next ==
    \/ \E r \in DOMAIN roleSrc : Entitlements_roles57(r)
    \/ \E r \in DOMAIN roleSrc : Grants_roles121(r)
    \/ \E r \in DOMAIN roleSrc : Grants_roles364(r)
    \/ \E r \in DOMAIN roleSrc : Entitlements_roles598(r)
    \/ \E r \in DOMAIN roleSrc : Grants_roles662(r)
    \/ \E r \in DOMAIN roleSrc : Entitlements_part001(r)
    \/ \E r \in DOMAIN roleSrc : Grants_part001(r)
    \/ \E r \in DOMAIN roleSrc : Entitlements_part000(r)
    \/ \E r \in DOMAIN roleSrc : Grants_roleMapping(r)
    \/ \E r \in DOMAIN roleSrc : Apply_createRoleEntitlements(r)
    \/ \E r \in DOMAIN roleSrc : Apply_createRoleGrants(r)

Spec == Init /\ [][Next]_vars

\* The pass model: the cached builder over a source that may change, beside the
\* earlier builders that keep nothing between calls.
InitPass ==
    /\ roleSrc \in [PassRoleNames -> PassRoleValues]
    /\ mappingSrc \in [PassRoleNames -> PassMappingValues]
    /\ userMatchKey = <<"username">>
    /\ bidUnrepresentable \in PassBidFailures
    /\ InitBuilder

NextPass ==
    \/ \E fails \in BOOLEAN : List_part002(fails)
    \/ \E r \in DOMAIN roleSrc : Entitlements_part002(r)
    \/ \E r \in DOMAIN roleSrc : Grants_part002(r)
    \/ \E r \in DOMAIN roleSrc : SourceChange(r)
    \/ \E r \in DOMAIN roleSrc : Entitlements_roles57(r)
    \/ \E r \in DOMAIN roleSrc : Entitlements_roles598(r)
    \/ \E r \in DOMAIN roleSrc : Grants_roles662(r)

SpecPass == InitPass /\ [][NextPass]_vars

\* The two-role model: one pass of the cached builder over two roles of a
\* source that does not change, the calls for the two roles in any order.
TwoRoleNames == {<<"analyst">>, <<"admin">>}
TwoRoleValues ==
    {RoleOk(<<p>>, <<>>) : p \in ClusterPermPool} \cup {RoleFailed}
TwoMappingValues ==
    {MappingOk(<<>>, <<>>), MappingOk(<<>>, <<<<"alice">>>>), MappingFailed}

InitRoles ==
    /\ roleSrc \in [TwoRoleNames -> TwoRoleValues]
    /\ mappingSrc \in [TwoRoleNames -> TwoMappingValues]
    /\ userMatchKey = <<"username">>
    /\ bidUnrepresentable \in PassBidFailures
    /\ InitBuilder

NextRoles ==
    \/ \E fails \in BOOLEAN : List_part002(fails)
    \/ \E r \in DOMAIN roleSrc : Entitlements_part002(r)
    \/ \E r \in DOMAIN roleSrc : Grants_part002(r)

SpecRoles == InitRoles /\ [][NextRoles]_vars

\* The concurrent model: the pipelines of two roles, each on its own goroutine,
\* and List, all on one roleBuilder.
ConcMappingValues == {MappingOk(<<>>, <<<<"alice">>>>), MappingFailed}

InitConc ==
    /\ roleSrc \in [TwoRoleNames -> TwoRoleValues]
    /\ mappingSrc \in [TwoRoleNames -> ConcMappingValues]
    /\ userMatchKey = <<"username">>
    /\ bidUnrepresentable = {}
    /\ InitBuilder

NextConc ==
    \/ \E fails \in BOOLEAN : ListBeside(fails)
    \/ \E r \in DOMAIN roleSrc : EntitlementsBegin(r)
    \/ \E r \in DOMAIN roleSrc : EntitlementsEnd(r)
    \/ \E r \in DOMAIN roleSrc : GrantsAfter(r)

SpecConc == InitConc /\ [][NextConc]_vars

\* The identifier model: the cached builder over two roles whose names and
\* permissions may hold ':' and a kind prefix, on a source that does not change.
IdRoleNames == {<<"a">>, <<"a", ":", "cluster_permission", ":", "x">>}
IdPermPool == {<<"get">>, <<"x", ":", "cluster_permission", ":", "get">>}
IdRoleValues == {RoleOk(<<p>>, <<>>) : p \in IdPermPool}
IdMappingValues == {MappingOk(<<>>, <<>>), MappingOk(<<<<"okta-analysts">>>>, <<<<"alice">>>>)}

InitIds ==
    /\ roleSrc \in [IdRoleNames -> IdRoleValues]
    /\ mappingSrc \in [IdRoleNames -> IdMappingValues]
    /\ userMatchKey = <<"username">>
    /\ bidUnrepresentable = {}
    /\ InitBuilder

NextIds ==
    \/ \E fails \in BOOLEAN : List_part002(fails)
    \/ \E r \in DOMAIN roleSrc : Entitlements_part002(r)
    \/ \E r \in DOMAIN roleSrc : Grants_part002(r)

SpecIds == InitIds /\ [][NextIds]_vars

\* The client model: the construction of the client and its calls.
InitClient ==
    /\ roleSrc = [r \in SynthRoleNames |-> RoleFailed]
    /\ mappingSrc = [r \in SynthRoleNames |-> MappingFailed]
    /\ userMatchKey = <<"username">>
    /\ bidUnrepresentable = {}
    /\ InitBuilder

NextClient ==
    \/ \E address \in AddressPool, matchKey \in ClientMatchKeys, insecure \in BOOLEAN,
          credentials \in ClientCredentialKinds, systemPoolOk \in BOOLEAN, httpClientOk \in BOOLEAN,
          resp \in FirstResponsePool :
            Call_NewClient(address, matchKey, insecure, credentials, systemPoolOk, httpClientOk, resp)
    \/ \E resp \in ResponsePool : Call_detectSecurityAPIPath(resp)
    \/ \E insecure \in BOOLEAN, credentials \in CredentialKinds, systemPoolOk \in BOOLEAN :
            Apply_getTLSConfig(insecure, credentials, systemPoolOk)
    \/ \E osc \in ConfigPool, fileRead \in {"readError", "pem"}, built \in {"ok", "new", "connector"} :
            Call_getConnector(osc, fileRead, built)

SpecClient == InitClient /\ [][NextClient]_vars

\* ============================================================ properties
\* The vocabulary of the properties.
SeqRange(s) == {s[i] : i \in 1..Len(s)}

Expandables(g) == {a \in SeqRange(g.Annotations) : a.type = "GrantExpandable"}

PermissionKinds == {"cluster_permission", "index_permission"}

IsPermissionLabelled(ent) == ent.DisplayName # <<>> /\ Head(ent.DisplayName) \in PermissionKinds

\* The number of allowed actions in the blocks before block k.
RECURSIVE ActionsBefore(_, _)
ActionsBefore(blocks, k) ==
    IF k = 1 THEN 0 ELSE Len(blocks[k - 1].AllowedActions) + ActionsBefore(blocks, k - 1)

TotalActions(blocks) == ActionsBefore(blocks, Len(blocks) + 1)

LastRole == roleSrc[last.role]
LastMapping == mappingSrc[last.role]
LastCall(op, srcs) == last.op = op /\ last.src \in srcs

IsLiteralWildcardMatch(a) ==
    \/ a.type = "ExternalResourceMatch" /\ a.Value = <<"*">>
    \/ a.type = "ExternalResourceMatchID" /\ a.Id = <<"*">>

C2_WildcardIsMatchAll ==
    (LastCall("Grants", {"part_001:70", "roles.go:364"}) /\ last.err = "nil"
        /\ LastMapping.status = "ok" /\ <<"*">> \in SeqRange(LastMapping.Users)) =>
        \E g \in SeqRange(last.grants) :
            /\ ExternalResourceMatchAll("TRAIT_USER") \in SeqRange(g.Annotations)
            /\ \A a \in SeqRange(g.Annotations) : ~IsLiteralWildcardMatch(a)

\* ---------------------------------------------------------------- C3
\* C3: when the role's mapping is NotFound, Grants returns no grants and no
\* error, whatever was called before.
C3_NotFoundIsNoGrants ==
    (LastCall("Grants", {"roles.go:662", "part_002:89"}) /\ LastMapping.status = "notfound") =>
        last.err = "nil" /\ last.grants = <<>>

\* ---------------------------------------------------------------- C4
\* C4: for a role whose mapping is NotFound, Entitlements succeeds with exactly
\* the role's permission entitlements and no assignment entitlement, and Grants
\* succeeds with no grants.
C4_UnmappedRoleKeepsPermissions ==
    /\ (LastCall("Entitlements", {"roles.go:598", "part_002:59", "roles.go:57"})
            /\ LastMapping.status = "notfound" /\ LastRole.status = "ok" /\ bidUnrepresentable = {}) =>
            /\ last.err = "nil"
            /\ Len(last.entitlements) = Len(LastRole.ClusterPermissions) + TotalActions(LastRole.IndexPermissions)
            /\ \A e \in SeqRange(last.entitlements) : IsPermissionLabelled(e)
    /\ (LastCall("Grants", {"roles.go:662", "part_002:89"})
            /\ LastMapping.status = "notfound" /\ LastRole.status = "ok") =>
            last.err = "nil" /\ Len(last.grants) = 0

C6_ExpansionIsAllPermissions ==
    LET made == createRoleEntitlements(RoleResource(last.role), LastRole, LastMapping)
        perms == {e \in SeqRange(made.entitlements) : e.Purpose = "PERMISSION"}
        permIds == {e.Id : e \in perms}
        permBids == {made.entitlementBidMap[e.Id] : e \in perms}
    IN  ((LastCall("Grants", {"part_001:70"}) \/ LastCall("createRoleGrants", {"role_mappings.go:440"}))
            /\ last.err = "nil" /\ LastRole.status = "ok" /\ LastMapping.status = "ok"
            /\ HasPermissions(LastRole) /\ made.err = "nil") =>
            \A g \in SeqRange(last.grants) : \E a \in Expandables(g) :
                SeqRange(a.EntitlementIds) \in {permIds, permBids}

\* ---------------------------------------------------------------- C7
\* C7: every grant of a role with cluster permissions carries an expansion
\* annotation that is shallow and restricted to a set of kinds with user in it
\* and group not.
C7_ExpansionRestrictedToUser ==
    ((LastCall("Grants", {"part_001:70", "roles.go:364"}) \/ LastCall("createRoleGrants", {"role_mappings.go:440"}))
        /\ last.err = "nil" /\ LastRole.status = "ok" /\ Len(LastRole.ClusterPermissions) > 0) =>
        \A g \in SeqRange(last.grants) : \E a \in Expandables(g) :
            /\ a.Shallow
            /\ userResourceType \in SeqRange(a.ResourceTypeIds)
            /\ groupResourceType \notin SeqRange(a.ResourceTypeIds)

\* ---------------------------------------------------------------- C8
\* C8: with a mapping present, the entitlement list holds an entitlement
\* labelled group_assignment:<backendRole> for each backend role and one
\* labelled user_assignment:<user> for each user identifier, "*" among them.
C8_AssignmentEntitlements ==
    ((LastCall("Entitlements", {"roles.go:598", "part_000:301"})
            \/ LastCall("createRoleEntitlements", {"role_mappings.go:349"}))
        /\ last.err = "nil" /\ LastMapping.status = "ok") =>
        /\ \A b \in SeqRange(LastMapping.BackendRoles) :
                \E e \in SeqRange(last.entitlements) : e.DisplayName = <<"group_assignment", ":">> \o b
        /\ \A u \in SeqRange(LastMapping.Users) :
                \E e \in SeqRange(last.entitlements) : e.DisplayName = <<"user_assignment", ":">> \o u

\* ---------------------------------------------------------------- C9
\* C9: the entitlement list begins with one cluster_permission:<perm>
\* entitlement per cluster permission, in input order, then one
\* index_permission:<action> entitlement per (block, allowed action) pair, in
\* block order then action order, and no entry after them is a permission.
C9_PermissionsInOrder ==
    ((LastCall("Entitlements", {"roles.go:598"}) \/ LastCall("createRoleEntitlements", {"role_mappings.go:349"}))
        /\ last.err = "nil") =>
        LET cluster == LastRole.ClusterPermissions
            blocks == LastRole.IndexPermissions
            ents == last.entitlements
            n == Len(cluster) + TotalActions(blocks)
            IdOf(label) == <<"role", ":">> \o last.role \o <<":">> \o label
            Is(e, label) == e.DisplayName = label /\ e.Id = IdOf(label)
        IN  /\ Len(ents) >= n
            /\ \A i \in 1..Len(cluster) : Is(ents[i], <<"cluster_permission", ":">> \o cluster[i])
            /\ \A k \in 1..Len(blocks) : \A j \in 1..Len(blocks[k].AllowedActions) :
                    Is(ents[Len(cluster) + ActionsBefore(blocks, k) + j],
                       <<"index_permission", ":">> \o blocks[k].AllowedActions[j])
            /\ \A i \in (n + 1)..Len(ents) : ~IsPermissionLabelled(ents[i])

\* createRoleEntitlements returned for a role with a cluster permission, an
\* index-permission block and a mapping with a backend role and a user.
C9_MixedRole ==
    /\ LastCall("createRoleEntitlements", {"role_mappings.go:349"}) /\ last.err = "nil"
    /\ Len(LastRole.ClusterPermissions) = 1 /\ Len(LastRole.IndexPermissions) = 1
    /\ Len(LastMapping.BackendRoles) = 1 /\ Len(LastMapping.Users) = 1
    /\ Len(last.entitlements) = 4

\* ---------------------------------------------------------------- C10
\* C10: when two blocks of a role allow the same action on different index
\* patterns, the entitlement list holds two entries for the action and their
\* ids differ.
C10_OnePerBlock ==
    ((LastCall("Entitlements", {"roles.go:598"}) \/ LastCall("createRoleEntitlements", {"role_mappings.go:349"}))
        /\ last.err = "nil") =>
        LET blocks == LastRole.IndexPermissions
            ents == last.entitlements
        IN  \A k1 \in 1..Len(blocks) : \A k2 \in (k1 + 1)..Len(blocks) :
                \A action \in SeqRange(blocks[k1].AllowedActions) \cap SeqRange(blocks[k2].AllowedActions) :
                    blocks[k1].IndexPatterns # blocks[k2].IndexPatterns =>
                        \E i \in 1..Len(ents) : \E j \in (i + 1)..Len(ents) :
                            /\ ents[i].DisplayName = <<"index_permission", ":">> \o action
                            /\ ents[j].DisplayName = <<"index_permission", ":">> \o action
                            /\ ents[i].Id # ents[j].Id

\* ---------------------------------------------------------------- C11
\* C11: for every user identifier u of the mapping but "*", the user grant of
\* u carries the match annotation {user, configured match key, u} (under the
\* key id: the id match on u), whichever of email, username and id is configured.
C11_UserMatchByConfiguredKey ==
    ((LastCall("Grants", {"part_001:70"}) \/ LastCall("createRoleGrants", {"role_mappings.go:440"}))
        /\ last.err = "nil" /\ LastMapping.status = "ok") =>
        \A i \in 1..Len(LastMapping.Users) :
            LET u == LastMapping.Users[i]
                g == last.grants[Len(LastMapping.BackendRoles) + i]
            IN  u # <<"*">> =>
                    \/ ExternalResourceMatch("TRAIT_USER", userMatchKey, u) \in SeqRange(g.Annotations)
                    \/ userMatchKey = <<"id">> /\ ExternalResourceMatchID(u) \in SeqRange(g.Annotations)

\* ---------------------------------------------------------------- C12
\* C12: for every backend role b of the mapping, exactly one grant of the
\* returned list carries the match annotation {group, "name", b}.
C12_GroupMatchByName ==
    ((LastCall("Grants", {"part_001:70", "role_mappings.go:162"})
            \/ LastCall("createRoleGrants", {"role_mappings.go:440"}))
        /\ last.err = "nil" /\ LastMapping.status = "ok") =>
        \A b \in SeqRange(LastMapping.BackendRoles) :
            Cardinality({i \in 1..Len(last.grants) :
                ExternalResourceMatch("TRAIT_GROUP", <<"name">>, b) \in SeqRange(last.grants[i].Annotations)})
              = Cardinality({k \in 1..Len(LastMapping.BackendRoles) : LastMapping.BackendRoles[k] = b})

\* ---------------------------------------------------------------- C13
\* C13: createRoleEntitlements makes one group-assignment entitlement per
\* backend role and one user-assignment entitlement per user, createRoleGrants
\* one group-matched grant per backend role and one user-matched grant per
\* user, and the entitlements and grants of a channel are those made for the
\* same role when the other channel of the mapping is empty.
IsGroupAssignment(e) == e.DisplayName # <<>> /\ Head(e.DisplayName) = "Group Assignment"
IsUserAssignment(e) == e.DisplayName # <<>> /\ Head(e.DisplayName) = "User Assignment"
IsGroupTargeted(g) == \E a \in SeqRange(g.Annotations) : a.type = "ExternalResourceMatch" /\ a.ResourceType = "TRAIT_GROUP"
IsUserTargeted(g) == \E a \in SeqRange(g.Annotations) : a.type = "ExternalResourceMatch" /\ a.ResourceType = "TRAIT_USER"

\* What the two helpers return for the role of the last call and a mapping.
HelpersOn(roleMapping) ==
    LET made == createRoleEntitlements(RoleResource(last.role), LastRole, roleMapping)
    IN  [entitlements |-> made.entitlements,
         grants |-> createRoleGrants(RoleResource(last.role), LastRole, roleMapping, made.entitlementBidMap).grants]

C13_ChannelsIndependent ==
    (LastCall("createRoleGrants", {"role_mappings.go:440"}) /\ last.err = "nil") =>
        LET groupsOnly == HelpersOn(MappingOk(LastMapping.BackendRoles, <<>>))
            usersOnly == HelpersOn(MappingOk(<<>>, LastMapping.Users))
        IN  /\ Len(SelectSeq(last.entitlements, IsGroupAssignment)) = Len(LastMapping.BackendRoles)
            /\ Len(SelectSeq(last.entitlements, IsUserAssignment)) = Len(LastMapping.Users)
            /\ Len(SelectSeq(last.grants, IsGroupTargeted)) = Len(LastMapping.BackendRoles)
            /\ Len(SelectSeq(last.grants, IsUserTargeted)) = Len(LastMapping.Users)
            /\ SelectSeq(last.entitlements, IsGroupAssignment) = SelectSeq(groupsOnly.entitlements, IsGroupAssignment)
            /\ SelectSeq(last.entitlements, IsUserAssignment) = SelectSeq(usersOnly.entitlements, IsUserAssignment)
            /\ SelectSeq(last.grants, IsGroupTargeted) = groupsOnly.grants
            /\ SelectSeq(last.grants, IsUserTargeted) = usersOnly.grants

\* The helpers ran on a role with a permission and a mapping of one backend
\* role and no user.
C13_GroupChannelAlone ==
    /\ LastCall("createRoleGrants", {"role_mappings.go:440"}) /\ last.err = "nil"
    /\ HasPermissions(LastRole)
    /\ Len(LastMapping.BackendRoles) = 1 /\ LastMapping.Users = <<>>
    /\ Len(last.grants) = 1 /\ IsGroupTargeted(last.grants[1])
    /\ Len(SelectSeq(last.entitlements, IsGroupAssignment)) = 1

\* ---------------------------------------------------------------- C14
\* C14: for role analyst with the one cluster permission cluster:monitor/health
\* and the mapping backendRoles = [okta-analysts], users = [alice], the
\* entitlement list is the cluster_permission entitlement and one
\* group_assignment:okta-analysts entitlement, and the grant list is one
\* group-matched grant with a shallow expansion over the id of the
\* cluster_permission entitlement and one grant of alice matched by the
\* configured key that carries an expansion annotation too.
AnalystRole == RoleOk(<< <<"cluster", ":", "monitor", "/", "health">> >>, <<>>)
AnalystMapping == MappingOk(<< <<"okta-analysts">> >>, << <<"alice">> >>)

C14_AnalystEndToEnd ==
    LET label == <<"cluster_permission", ":", "cluster", ":", "monitor", "/", "health">>
        permission == NewPermissionEntitlement(RoleResource(last.role), label, <<userResourceType>>)
        ids == {<<permission.Id>>, <<BidText(permission)>>}
        MatchesAlice(g) ==
            \/ ExternalResourceMatch("TRAIT_USER", userMatchKey, <<"alice">>) \in SeqRange(g.Annotations)
            \/ userMatchKey = <<"id">> /\ ExternalResourceMatchID(<<"alice">>) \in SeqRange(g.Annotations)
    IN  /\ ((LastCall("Entitlements", {"roles.go:598"}) \/ LastCall("createRoleEntitlements", {"role_mappings.go:349"}))
                /\ LastRole = AnalystRole /\ LastMapping = AnalystMapping /\ bidUnrepresentable = {}) =>
                /\ last.err = "nil"
                /\ Len(last.entitlements) = 2
                /\ last.entitlements[1].DisplayName = label
                /\ last.entitlements[2].DisplayName = <<"group_assignment", ":", "okta-analysts">>
        /\ ((LastCall("Grants", {"roles.go:662"}) \/ LastCall("createRoleGrants", {"role_mappings.go:440"}))
                /\ LastRole = AnalystRole /\ LastMapping = AnalystMapping /\ bidUnrepresentable = {}) =>
                /\ last.err = "nil"
                /\ Len(last.grants) = 2
                /\ \E g \in SeqRange(last.grants) :
                        /\ ExternalResourceMatch("TRAIT_GROUP", <<"name">>, <<"okta-analysts">>) \in SeqRange(g.Annotations)
                        /\ \E a \in Expandables(g) : a.Shallow /\ a.EntitlementIds \in ids
                /\ \E g \in SeqRange(last.grants) : MatchesAlice(g) /\ Expandables(g) # {}

\* ---------------------------------------------------------------- C15
\* C15: when GetRoleMapping fails with an error other than NotFound,
\* Entitlements (which reads the role first) and Grants return that error and
\* neither entitlements nor grants.
C15_MappingErrorPropagates ==
    /\ (LastCall("Entitlements", {"roles.go:598"}) /\ LastRole.status = "ok" /\ LastMapping.status = "error") =>
            last.err = "mapping" /\ last.entitlements = <<>> /\ last.grants = <<>>
    /\ (LastCall("Grants", {"roles.go:662"}) /\ LastMapping.status = "error") =>
            last.err = "mapping" /\ last.entitlements = <<>> /\ last.grants = <<>>

\* Grants was called for a role with permissions whose mapping cannot be read.
C15_MappingUnreadable ==
    /\ LastCall("Grants", {"roles.go:662"})
    /\ LastMapping.status = "error" /\ LastRole.status = "ok" /\ HasPermissions(LastRole)
    /\ last.err = "mapping"

\* ---------------------------------------------------------------- C16
\* C16: when GetRole fails for a role, Entitlements and Grants return an
\* error, also when the role's mapping is NotFound.
C16_RoleErrorIsHard ==
    ((LastCall("Entitlements", {"roles.go:598", "part_001:60"}) \/ LastCall("Grants", {"roles.go:662", "part_001:70"}))
        /\ LastRole.status = "error") =>
        last.err # "nil"


\* ---------------------------------------------------------------- C17
\* The role of the last call and its mapping were read, and makeBidEntitlement
\* fails on one of the entitlements createRoleEntitlements builds from them.
SynthesisFails(r) ==
    /\ roleSrc[r].status = "ok"
    /\ mappingSrc[r].status = "ok"
    /\ LET ents == RoleEntitlementList(RoleResource(r), roleSrc[r], mappingSrc[r])
       IN  \E i \in 1..Len(ents) : makeBidEntitlement(ents[i]).err

C19_GrantsOnlyReadsCache ==
    LastCall("Grants", {"part_002:89"}) => ~last.cacheWritten


\* ---------------------------------------------------------------- C18
\* What a call returned, without the record of whether it assigned the cache.
Outcome(ret) ==
    [op |-> ret.op, role |-> ret.role, err |-> ret.err, entitlements |-> ret.entitlements,
     grants |-> ret.grants, entitlementBidMap |-> ret.entitlementBidMap]

\* Every cache entry is the id map made from its own role's data.
CacheEntriesOwn ==
    \A b \in DOMAIN entitlementBidCache :
        /\ roleSrc[b].status = "ok"
        /\ mappingSrc[b].status = "ok"
        /\ LET made == createRoleEntitlements(RoleResource(b), roleSrc[b], mappingSrc[b])
           IN  made.err = "nil" /\ entitlementBidCache[b] = made.entitlementBidMap

\* The last call returned what it returns on a builder that has processed no role.
AsOnFreshBuilder ==
    /\ LastCall("Entitlements", {"part_002:59"})
            => Outcome(last) = Outcome(Ret_Entitlements_on(EmptyCache, last.role).ret)
    /\ LastCall("Grants", {"part_002:89"})
            => Outcome(last) = Outcome(Ret_Grants_on(EmptyCache, last.role).ret)

\* A failed call for a role leaves the entry of every other role as it was.
FailureKeepsOthers ==
    (/\ last' # last
     /\ last'.op \in {"Entitlements", "Grants"}
     /\ last'.err # "nil")
        => \A b \in TwoRoleNames \ {last'.role} :
                /\ (b \in DOMAIN entitlementBidCache') = (b \in DOMAIN entitlementBidCache)
                /\ b \in DOMAIN entitlementBidCache
                        => entitlementBidCache'[b] = entitlementBidCache[b]

\* C18: over two roles of an unchanging source, a failing Entitlements or
\* Grants call for one role leaves the cache entry of the other role as it
\* was; every cache entry is always the id map of its own role; and every call
\* for a role returns what it returns on a builder that never processed the
\* other role.
C18_FailureIsolated ==
    [](CacheEntriesOwn /\ AsOnFreshBuilder) /\ [][FailureKeepsOthers]_vars

\* A call for one role has failed while the cache holds the other role's entry.
C18_FailedBesideCachedRole ==
    /\ last.op \in {"Entitlements", "Grants"}
    /\ last.src \in {"part_002:59", "part_002:89"}
    /\ last.err # "nil"
    /\ \E b \in DOMAIN entitlementBidCache : b # last.role


\* ---------------------------------------------------------------- C20
\* C20: with the pipelines of two roles and List interleaved on one builder
\* without locks, the runtime never throws, the entry a role's Entitlements
\* assigned is in the cache until the role's Grants reads it, and Grants then
\* returns what it returns after Entitlements in a run of that role alone.
C20_ConcurrentAsSequential ==
    /\ runtime = "running"
    /\ \A r \in DOMAIN pc :
            pc[r].at = "entitled" => r \in DOMAIN entitlementBidCache
    /\ LastCall("Grants", {"part_002:89"})
            => /\ ~last.cacheWritten
               /\ Outcome(last) = Outcome(Ret_Grants_on(
                        Ret_Entitlements_on(EmptyCache, last.role).cache, last.role).ret)


\* ---------------------------------------------------------------- C21
\* The text is "opensearch" in some mix of upper and lower case.
IsOpensearchInAnyCase(d) ==
    /\ Len(d) = Len(opensearch)
    /\ \A i \in 1..Len(d) :
            \E k \in 1..26 : /\ LowerLetters[k] = opensearch[i]
                             /\ d[i] \in {LowerLetters[k], UpperLetters[k]}

\* The server answered the request with a readable JSON body and not with 401.
AnsweredWithVersion(resp) ==
    ~resp.doErr /\ resp.status # 401 /\ resp.readable /\ resp.json

\* C21: a detectSecurityAPIPath call on a client with a usable base URL returns
\* no error exactly when the server answered with readable JSON and not 401;
\* it then sets the security path to "/_plugins/_security/api" if the answer
\* carries a version.distribution that is "opensearch" in any case, and to
\* "/_opendistro/_security/api" otherwise (field missing, empty or different);
\* when it returns an error the client is as it was before the call.
C21_DetectionSetsPath ==
    (LastCall("detectSecurityAPIPath", {"part_006:249"}) /\ ~urlParse(last.args.before.baseURL).err)
        => LET resp == last.args.resp
               isOpensearch == resp.hasDistribution /\ IsOpensearchInAnyCase(resp.distribution)
           IN  /\ (last.ret.err = "nil") = AnsweredWithVersion(resp)
               /\ last.ret.err = "nil"
                    => /\ client.securityPath = IF isOpensearch THEN PluginsSecurityPath
                                                 ELSE OpendistroSecurityPath
                       /\ [client EXCEPT !.securityPath = <<>>]
                            = [last.args.before EXCEPT !.securityPath = <<>>]
               /\ last.ret.err # "nil" => client = last.args.before

\* A client on the OpenDistro path met a server that says "OpenSearch".
C21_MixedCaseDetected ==
    /\ LastCall("detectSecurityAPIPath", {"part_006:249"})
    /\ last.args.before.securityPath = OpendistroSecurityPath
    /\ last.args.resp.hasDistribution
    /\ last.args.resp.distribution # opensearch
    /\ client.securityPath = PluginsSecurityPath


\* ---------------------------------------------------------------- C22
\* The TLS configuration of the call can be built: verification is skipped, or
\* there is no certificate data and the system pool loads, or the data holds a
\* certificate.
TLSBuildable(args) ==
    \/ args.insecureSkipVerify
    \/ args.credentials \in {"nil", "empty"} /\ args.systemPoolOk
    \/ args.credentials = "pem"

AddressParses(address) == address = <<>> \/ Head(address) # ":"

\* C22: NewClient returns either (nil, error) or (client, nil).  It returns the
\* error when the address does not parse or the TLS configuration cannot be
\* built, and never because detection failed: whenever the TLS configuration
\* and the HTTP client are built and the address parses it returns a client
\* that holds the given username, password and user match key, with the
\* security path "/_plugins/_security/api" if detection returned an error.
C22_NewClientSurvivesDetection ==
    LastCall("NewClient", {"part_006:298"})
        => LET args == last.args
           IN  /\ (last.ret.err # "nil") = ~last.ret.client.exists
               /\ client = last.ret.client
               /\ (~AddressParses(args.address) \/ ~TLSBuildable(args))
                    => last.ret.err # "nil" /\ client = NilClient
               /\ (AddressParses(args.address) /\ TLSBuildable(args) /\ args.httpClientOk)
                    => /\ last.ret.err = "nil"
                       /\ client.exists
                       /\ client.username = args.username
                       /\ client.password = args.password
                       /\ client.userMatchKey = args.userMatchKey
                       /\ ~AnsweredWithVersion(args.resp)
                            => client.securityPath = PluginsSecurityPath

\* NewClient built a client although the detection request failed.
C22_BuiltWithoutDetection ==
    /\ LastCall("NewClient", {"part_006:298"})
    /\ last.args.resp.doErr
    /\ client.exists
    /\ client.securityPath = PluginsSecurityPath


\* ---------------------------------------------------------------- C23
\* What the claim says of a getTLSConfig call in every case but that of no
\* certificate data without insecureSkipVerify.
TLSConfigAsClaimed ==
    LET args == last.args
        ret == last.ret
    IN  /\ args.insecureSkipVerify
            => ret.err = "nil" /\ ~ret.config.isNil /\ ret.config.InsecureSkipVerify
        /\ (~args.insecureSkipVerify /\ args.credentials = "pem")
            => /\ ret.err = "nil" /\ ~ret.config.isNil
               /\ ~ret.config.InsecureSkipVerify /\ ret.config.RootCAs = "parsed"
        /\ (~args.insecureSkipVerify /\ args.credentials = "garbage")
            => ret.err # "nil" /\ ret.config.isNil

UsesSystemPool ==
    /\ last.ret.err = "nil" /\ ~last.ret.config.isNil
    /\ ~last.ret.config.InsecureSkipVerify /\ last.ret.config.RootCAs = "system"

\* C23 as stated: with insecureSkipVerify the configuration skips verification
\* and there is no error, whatever the certificate data; without it the
\* configuration verifies against the system pool when no certificate data is
\* given and against the parsed pool when the data is valid PEM, and the call
\* returns an error and a nil configuration when the data cannot be parsed.
C23_TLSConfigAsStated ==
    LastCall("getTLSConfig", {"part_006:341"})
        => /\ TLSConfigAsClaimed
           /\ (~last.args.insecureSkipVerify /\ last.args.credentials \in {"nil", "empty"})
                => UsesSystemPool

\* C23 amended: as stated, except that without insecureSkipVerify and without
\* certificate data the configuration uses the system pool when
\* x509.SystemCertPool loads it, and the call returns an error and a nil
\* configuration when it does not.
C23_TLSConfigBySystemPool ==
    LastCall("getTLSConfig", {"part_006:341"})
        => /\ TLSConfigAsClaimed
           /\ (~last.args.insecureSkipVerify /\ last.args.credentials \in {"nil", "empty"})
                => IF last.args.systemPoolOk THEN UsesSystemPool
                   ELSE last.ret.err # "nil" /\ last.ret.config.isNil

\* Verification is skipped although the certificate data cannot be parsed.
C23_InsecureWithBadData ==
    /\ LastCall("getTLSConfig", {"part_006:341"})
    /\ last.args.insecureSkipVerify
    /\ last.args.credentials = "garbage"
    /\ last.ret.err = "nil"


\* ---------------------------------------------------------------- C24
BothCertificatesSet(osc) == osc.CaCertPath # <<>> /\ osc.CaCert # <<>>

C25_RequiredFieldsValidated ==
    LastCall("getConnector", {"main.go:45"})
        => LET osc == last.args.osc
               ret == last.ret
               empty == {f \in {"address", "username", "password"} : FieldValue(osc, f) = <<>>}
           IN  /\ empty # {}
                    => /\ ret.err = "validation" /\ ret.stage = "validate" /\ ~ret.connector
                       /\ {ret.missing[i] : i \in 1..Len(ret.missing)} = empty
                       /\ Len(ret.missing) = Cardinality(empty)
               /\ (empty = {} /\ ~BothCertificatesSet(osc))
                    => ret.err # "validation" /\ ret.stage # "validate"
               /\ ret.connector => (empty = {} /\ ret.err = "nil")

\* A configuration with only the address was rejected for username and password.
C25_TwoFieldsReported ==
    /\ LastCall("getConnector", {"main.go:45"})
    /\ last.args.osc.Address # <<>>
    /\ last.ret.err = "validation"
    /\ last.ret.missing = <<"username", "password">>


\* ---------------------------------------------------------------- C26
\* The grant is the one made for member m of the mapping.
GrantTargets(g, m) ==
    g.Principal.Resource \in {m, <<"group_member", ":">> \o m, <<"backend_role", ":">> \o m}

\* The resource the last Grants call was made for.
LastOwner ==
    IF last.src = "role_mappings.go:162" THEN RoleMappingResource(last.role)
    ELSE RoleResource(last.role)

\* C26: a grant list returned for a role with a mapping holds one grant per
\* backend role and one per user, each on an entitlement of the resource the
\* call was made for, the grants of the backend roles first and in mapping
\* order, then the grants of the users in mapping order.
C26_BackendRolesThenUsers ==
    ((LastCall("Grants", {"part_001:70", "role_mappings.go:162"})
            \/ LastCall("createRoleGrants", {"role_mappings.go:440"}))
        /\ last.err = "nil" /\ LastMapping.status = "ok") =>
        LET backendRoles == LastMapping.BackendRoles
            users == LastMapping.Users
        IN  /\ Len(last.grants) = Len(backendRoles) + Len(users)
            /\ \A i \in 1..Len(last.grants) : last.grants[i].Entitlement.Resource = LastOwner
            /\ \A i \in 1..Len(backendRoles) : GrantTargets(last.grants[i], backendRoles[i])
            /\ \A j \in 1..Len(users) : GrantTargets(last.grants[Len(backendRoles) + j], users[j])


\* ---------------------------------------------------------------- C27
\* After a successful List the cache is empty, and every entry the cache holds
\* was made of ids synthesized since the last successful List.
CacheOfThisPass ==
    /\ (LastCall("List", {"part_002:24"}) /\ last.err = "nil") => entitlementBidCache = EmptyCache
    /\ \A r \in DOMAIN entitlementBidCache :
            /\ produced[r] # {}
            /\ Range(entitlementBidCache[r]) \subseteq produced[r]

\* A failing List leaves the cache as it was; an Entitlements or Grants call
\* leaves the entry of every role but its own as it was.
CacheFrame ==
    /\ (last'.op = "List" /\ last'.err # "nil") => entitlementBidCache' = entitlementBidCache
    /\ last'.op \in {"Entitlements", "Grants"}
            => \A b \in TwoRoleNames \ {last'.role} :
                    /\ (b \in DOMAIN entitlementBidCache') = (b \in DOMAIN entitlementBidCache)
                    /\ b \in DOMAIN entitlementBidCache
                            => entitlementBidCache'[b] = entitlementBidCache[b]

\* C27: the cache is scoped to one pass.  A successful List leaves it empty, so
\* every entry a Grants call can read was written since that List; a List that
\* fails leaves it unchanged; Entitlements and Grants for a role add or replace
\* the entry of that role only.
C27_CachePerPass ==
    []CacheOfThisPass /\ [][CacheFrame]_vars

\* A pass that had cached a role was followed by a successful List.
C27_NewPassStartsEmpty ==
    /\ LastCall("List", {"part_002:24"})
    /\ last.err = "nil"
    /\ entitlementBidCache = EmptyCache
    /\ \E r \in DOMAIN entSeen : entSeen[r].runs > 0


\* ---------------------------------------------------------------- C28
\* Grants for the role on a builder that has cached nothing (the miss path),
\* and on one that has just run Entitlements for the role (the hit path when
\* Entitlements succeeds).
GrantsOnMiss(r) == Ret_Grants_on(EmptyCache, r)
GrantsAfterEntitlements(r) == Ret_Grants_on(Ret_Entitlements_on(EmptyCache, r).cache, r)

\* C28: over an unchanging source, what Grants returns for a role is what the
\* miss path returns and what the hit path returns, whichever the call took;
\* and after a Grants call that returned grants the cache entry of the role is
\* the id map Entitlements stores for it.
C28_MissPathAsHitPath ==
    LastCall("Grants", {"part_002:89"})
        => LET r == last.role
               stored == Ret_Entitlements_on(EmptyCache, r)
           IN  /\ Outcome(last) = Outcome(GrantsOnMiss(r).ret)
               /\ Outcome(last) = Outcome(GrantsAfterEntitlements(r).ret)
               /\ last.err = "nil"
                    => /\ r \in DOMAIN entitlementBidCache
                       /\ stored.ret.err = "nil"
                       /\ entitlementBidCache[r] = stored.cache[r]
               /\ r \in DOMAIN entitlementBidCache
                    => entitlementBidCache[r] = stored.ret.entitlementBidMap

\* Grants returned grants on the miss path.
C28_GrantsStoredOnMiss ==
    /\ LastCall("Grants", {"part_002:89"})
    /\ last.cacheWritten
    /\ last.err = "nil"
    /\ last.grants # <<>>


\* ---------------------------------------------------------------- C29
\* The identifiers of the entitlements Entitlements (roles.go:598) returns for
\* the role on the present source.
DeclaredIds(r) ==
    LET ents == Ret_Entitlements_roles598(r).entitlements
    IN  {ents[i].Id : i \in 1..Len(ents)}

\* C29: every grant Grants (roles.go:662) returns for a role has, as its
\* entitlement, an entitlement of that role whose identifier Entitlements
\* returns for the role on the same source.
\* The same holds of createRoleGrants against the entitlements
\* createRoleEntitlements makes of the same role and mapping.
C29_GrantsReferenceDeclared ==
    /\ LastCall("Grants", {"roles.go:662"})
        => \A i \in 1..Len(last.grants) :
              /\ last.grants[i].Entitlement.Resource = RoleResource(last.role)
              /\ last.grants[i].Entitlement.Id \in DeclaredIds(last.role)
    /\ LastCall("createRoleGrants", {"role_mappings.go:440"})
        => \A i \in 1..Len(last.grants) :
              \E j \in 1..Len(last.entitlements) :
                  last.grants[i].Entitlement.Id = last.entitlements[j].Id


\* ---------------------------------------------------------------- C30
\* The entitlements the builder has returned for a role, each with its role.
ReturnedFor(r) ==
    {[role |-> r, ent |-> entSeen[r].entitlements[i]] : i \in 1..Len(entSeen[r].entitlements)}
AllReturned == UNION {ReturnedFor(r) : r \in DOMAIN roleSrc}

\* The keys createRoleGrants looks up for a role (role_mappings.go:467-481).
LookupKeysOf(r) == Range(ExpandableKeys(RoleResource(r), GetRole(r)))

\* C30: two returned entitlements with one identifier are of one role and
\* carry one label (kind and value); and no two roles share a key of the
\* label-to-id index or a key the grant code looks up in it.
C30_IdentifiersInjective ==
    /\ \A x, y \in AllReturned :
            x.ent.Id = y.ent.Id
                => x.role = y.role /\ x.ent.Slug = y.ent.Slug /\ x.ent.Purpose = y.ent.Purpose
    /\ \A r1, r2 \in DOMAIN entitlementBidCache :
            r1 # r2 => DOMAIN entitlementBidCache[r1] \cap DOMAIN entitlementBidCache[r2] = {}
    /\ LastCall("Grants", {"part_002:89"}) /\ last.err = "nil"
        => \A r \in DOMAIN roleSrc :
              r # last.role => LookupKeysOf(last.role) \cap LookupKeysOf(r) = {}

====
